---------------------------- MODULE Spec2Model ----------------------------
(***************************************************************************)
(* A model of the manifest acquisition pipeline of OneKeyV2 (src/main.py): *)
(* the mirror fetcher fetch_files, the repository selector                 *)
(* get_latest_repo_info, the key parser parse_key, the unlock run of       *)
(* main_gui that drives handle_depot_files, and the configuration writers  *)
(* setup_steamtools and setup_greenluma.                                   *)
(*                                                                         *)
(* Every component has its own specification over its own group of         *)
(* variables; the variables of the other components stay at their idle     *)
(* values:                                                                 *)
(*   SpecFetch   one call of fetch_files                                   *)
(*   SpecSelect  one call of get_latest_repo_info                          *)
(*   SpecParse   one call of parse_key                                     *)
(*   Spec        unlock runs of main_gui on one Steam directory            *)
(*   SpecIndex   the version index of one tree listing                     *)
(*   SpecMainGui one call of main_gui up to handle_depot_files             *)
(*   SpecSteamtools, SpecGreenluma  one call of each configuration writer  *)
(*   SpecRegion  calls of main_gui one after the other, with the region    *)
(*               flag and the fetch_files calls of the unlock runs         *)
(*   SpecWorker, SpecWorkerFair  one session of the window of              *)
(*               src/common/gui.py: buttons, worker threads, closeEvent    *)
(* Text (paths, timestamps) is a sequence of one-character strings, so     *)
(* that suffix tests, substring tests and comparisons are computed.        *)
(*                                                                         *)
(* In Spec the calls of get_latest_repo_info and fetch_files are steps     *)
(* with the outcomes SpecSelect and SpecFetch show them to have (a result  *)
(* or an exception); neither writes anything but its own locals.  The      *)
(* repository tree is chosen once and stays the same over the runs; the    *)
(* files of depotcache are what the runs leave.                            *)
(***************************************************************************)
EXTENDS Integers, Sequences, FiniteSets, TLC

VARIABLES
    \* ---- fetch_files (src/main.py:276-337)
    IS_CN,              \* variable.IS_CN, the region flag
    CONFIG_retry_count, \* variable.CONFIG["network"]["retry_count"]
    fetch_pc,           \* "entry", "request", "returned", "raised", "interrupted", "idle"
    retry_count,        \* the local retry_count
    url_idx,            \* position in url_list of the next request
    last_error,         \* the local last_error
    fetch_log,          \* the requests issued so far, in order
    fetch_sleeps,       \* how many times asyncio.sleep(retry_delay) was awaited
    fetch_content,      \* the returned bytes
    \* ---- get_latest_repo_info (src/main.py:127-142)
    sel_pc,             \* "query", "returned", "not_found", "error", "idle"
    sel_idx,            \* position in repos of the next query
    latest_date,        \* the local latest_date
    selected_repo,      \* the local selected_repo
    sel_responses,      \* the branch responses received so far, in order
    \* ---- parse_key (src/main.py:340-347)
    key_pc,             \* "call", "done", "idle"
    key_content,        \* the argument
    key_result,         \* the returned list
    \* ---- main_gui, stage "unlock", and handle_depot_files (src/main.py:196-273, 574-610)
    repo_tree,          \* the paths of the tree listing of the repository branch
    pc,                 \* "select", "branch", "tree", "walk", "handled", "done", "idle"
    idx,                \* position in the tree listing of the entry the walk is at
    depot_cache_exists, \* whether steam_path/depotcache exists
    dirs,               \* the directories that exist under depotcache
    disk,               \* the files under depotcache: relative path -> bytes
    collected,          \* the local collected of handle_depot_files
    depot_map,          \* the local depot_map of handle_depot_files
    hdf_error,          \* the except clause handle_depot_files ran, None if none
    events,             \* this run's fetch_files calls, file writes, parse_key
                        \* calls and setup_unlock calls, in order
    run_result,         \* the success flag main_gui returned, None before
    prev_ok,            \* whether the previous run's handle_depot_files ran
                        \* to its end without an exception
    \* ---- setup_steamtools, setup_greenluma (src/main.py:379-438)
    setup_pc,           \* "call", "returned", "raised", "idle"
    depot_data,         \* the argument depot_data
    st_app_id,          \* the argument app_id of setup_steamtools
    st_depot_map,       \* the argument depot_map of setup_steamtools
    choice,             \* the user's answer to "lock the version?", which
                        \* the prompt of lines 385-387 asked for
    config_exists,      \* whether STEAM_PATH/config exists
    stplug_in_exists,   \* whether STEAM_PATH/config/stplug-in exists
    lua_file,           \* the lines of config/stplug-in/{app_id}.lua
    applist_exists,     \* whether STEAM_PATH/AppList exists
    applist,            \* the files of AppList: name -> text
    config_vdf,         \* the file config/config.vdf
    applist_old,        \* applist as it was when setup_greenluma was called
    config_vdf_old,     \* config_vdf as it was when setup_greenluma was called
    setup_result,       \* the returned flag, None before
    failed_at,          \* the operation of setup_greenluma that raised, None
                        \* if none did
    \* ---- main_gui up to handle_depot_files (src/main.py:498-591)
    stage,              \* the argument stage
    app_id_input,       \* the argument app_id
    gui_pc,             \* "start", "location", "rate_limit", "updates",
                        \* "info", "handle", "returned", "idle"
    app_id,             \* the local app_id after line 583 (517)
    gui_status,         \* the last error text given to gui.set_status
    gui_requests,       \* the network requests issued so far, in order
    gui_result,         \* the success flag returned, None before
    \* ---- the window and its workers (src/common/gui.py:255-316, 741-894)
    view_btn,           \* whether the View button is enabled
    start_btn,          \* whether the Start Unlock button is enabled (and
                        \* shown: the code hides it where it disables it)
    input_frame,        \* whether the yes/no input buttons are shown
    workers,            \* self.workers: one record per AsyncWorker, in the
                        \* order of their creation
    gui_events,         \* the signals of worker threads queued for the GUI
                        \* thread, in order
    close_pc,           \* "open", closeEvent at "stop" or in "wait", "closed"
    close_idx,          \* the worker closeEvent is stopping
    \* ---- the module attribute variable.IS_CN (src/common/variable.py:119)
    IS_CN_assigned      \* whether IS_CN has been assigned in this process

fetchVars == <<IS_CN, CONFIG_retry_count, fetch_pc, retry_count, url_idx,
               last_error, fetch_log, fetch_sleeps, fetch_content>>
selVars   == <<sel_pc, sel_idx, latest_date, selected_repo, sel_responses>>
keyVars   == <<key_pc, key_content, key_result>>
runVars   == <<repo_tree, pc, idx, depot_cache_exists, dirs, disk, collected,
               depot_map, hdf_error, events, run_result, prev_ok>>
cfgVars   == <<setup_pc, depot_data, st_app_id, st_depot_map, choice,
               config_exists, stplug_in_exists, lua_file, applist_exists,
               applist, config_vdf, applist_old, config_vdf_old, setup_result,
               failed_at>>
guiVars   == <<stage, app_id_input, gui_pc, app_id, gui_status, gui_requests,
               gui_result>>
wkVars    == <<view_btn, start_btn, input_frame, workers, gui_events,
               close_pc, close_idx>>
regVars   == <<IS_CN_assigned>>
vars      == <<fetchVars, selVars, keyVars, runVars, cfgVars, guiVars, wkVars,
               regVars>>

\* what a step of one component leaves alone
notFetch  == <<selVars, keyVars, runVars, cfgVars, guiVars, wkVars,
               regVars>>
notSel    == <<fetchVars, keyVars, runVars, cfgVars, guiVars, wkVars,
               regVars>>
notKey    == <<fetchVars, selVars, runVars, cfgVars, guiVars, wkVars,
               regVars>>
notRun    == <<fetchVars, selVars, keyVars, cfgVars, guiVars, wkVars,
               regVars>>
notCfg    == <<fetchVars, selVars, keyVars, runVars, guiVars, wkVars,
               regVars>>
notGui    == <<selVars, keyVars, cfgVars, wkVars>>
notWk     == <<fetchVars, selVars, keyVars, runVars, cfgVars,
               regVars>>
fetchLocals == <<CONFIG_retry_count, fetch_pc, retry_count, url_idx, last_error,
                 fetch_log, fetch_sleeps, fetch_content>>
runLocals == <<repo_tree, idx, depot_cache_exists, dirs, disk, collected,
               depot_map, hdf_error, events, run_result, prev_ok>>

None == "None"

----------------------------------------------------------------------------
(* Bounds *)

\* the largest configured retry count
MaxRetry == 3

\* the longest commit timestamp string
MaxDateLen == 2

\* the most depot subsections in the text of one key container
MaxSections == 3

\* the most entries of a tree listing
MaxTree == 3

\* the most manifest files in depotcache before the first run
MaxPreexisting == 1

\* the longest tree listing the index is built from on its own
MaxIndexTree == 3

\* the most (depot_id, key) pairs given to setup_unlock
MaxPairs == 2

\* the longest text typed into the AppID field
MaxInputLen == 4

\* the most operations started in one session of the window
MaxWorkers == 2

\* the most prompts one callback asks through input()
MaxPrompts == 1

\* the most fetch_files calls of one unlock run
MaxFetchCalls == 2

----------------------------------------------------------------------------
(* fetch_files *)

\* the mirrors tried in the domestic region / the direct source otherwise
url_list ==
    IF IS_CN
    THEN << "cdn.jsdmirror.com", "raw.gitmirror.com", "raw.dgithub.xyz", "gh.akass.cn" >>
    ELSE << "raw.githubusercontent.com" >>

\* the bodies a 2xx response can carry
Bodies == {"b1", "b2"}

\* the errors the request handlers of fetch_files record
FetchErrors == {"ConnectError", "ConnectTimeout", "HTTPStatusError", "Exception"}

FetchIdle ==
    /\ IS_CN = TRUE
    /\ CONFIG_retry_count = 0
    /\ fetch_pc = "idle"
    /\ retry_count = 0
    /\ url_idx = 0
    /\ last_error = None
    /\ fetch_log = << >>
    /\ fetch_sleeps = 0
    /\ fetch_content = None

\* the call: the region flag and the configuration are what the caller left
FetchInit ==
    /\ IS_CN \in BOOLEAN
    /\ CONFIG_retry_count \in 0..MaxRetry
    /\ fetch_pc = "entry"
    /\ retry_count = 0
    /\ url_idx = 0
    /\ last_error = None
    /\ fetch_log = << >>
    /\ fetch_sleeps = 0
    /\ fetch_content = None

\* lines 290-305: build url_list, read the configuration, test the loop
fetch_files_entry ==
    /\ fetch_pc = "entry"
    /\ retry_count' = CONFIG_retry_count
    /\ last_error' = None
    /\ IF CONFIG_retry_count > 0
       THEN fetch_pc' = "request" /\ url_idx' = 1
       ELSE fetch_pc' = "raised" /\ url_idx' = 0
    /\ UNCHANGED <<IS_CN, CONFIG_retry_count, fetch_log, fetch_sleeps, fetch_content>>
    /\ UNCHANGED notFetch

fetch_files_success_NoReturn(body) ==
    /\ fetch_pc = "request"
    /\ fetch_log' = Append(fetch_log, [url |-> url_list[url_idx], ok |-> TRUE, body |-> body])
    /\ fetch_content' = body
    /\ IF url_idx < Len(url_list)
       THEN url_idx' = url_idx + 1 /\ fetch_pc' = "request"
       ELSE url_idx' = url_idx /\ fetch_pc' = "returned"
    /\ UNCHANGED <<IS_CN, CONFIG_retry_count, retry_count, last_error, fetch_sleeps>>
    /\ UNCHANGED notFetch

\* lines 309-313: the request answers 2xx, its body is returned
fetch_files_success(body) ==
    /\ fetch_pc = "request"
    /\ fetch_log' = Append(fetch_log, [url |-> url_list[url_idx], ok |-> TRUE, body |-> body])
    /\ fetch_content' = body
    /\ fetch_pc' = "returned"
    /\ UNCHANGED <<IS_CN, CONFIG_retry_count, retry_count, url_idx, last_error, fetch_sleeps>>
    /\ UNCHANGED notFetch

fetch_files_failure_RaisesAtOnce(err) ==
    /\ fetch_pc = "request"
    /\ fetch_log' = Append(fetch_log, [url |-> url_list[url_idx], ok |-> FALSE, body |-> None])
    /\ last_error' = err
    /\ fetch_pc' = "raised"
    /\ UNCHANGED <<IS_CN, CONFIG_retry_count, retry_count, url_idx, fetch_sleeps, fetch_content>>
    /\ UNCHANGED notFetch

fetch_files_failure_SleepsAfterLast(err) ==
    /\ fetch_pc = "request"
    /\ fetch_log' = Append(fetch_log, [url |-> url_list[url_idx], ok |-> FALSE, body |-> None])
    /\ last_error' = err
    /\ IF url_idx < Len(url_list)
       THEN /\ url_idx' = url_idx + 1
            /\ UNCHANGED <<fetch_pc, retry_count, fetch_sleeps>>
       ELSE /\ retry_count' = retry_count - 1
            /\ fetch_sleeps' = fetch_sleeps + 1
            /\ IF retry_count - 1 > 0
               THEN url_idx' = 1 /\ fetch_pc' = "request"
               ELSE url_idx' = url_idx /\ fetch_pc' = "raised"
    /\ UNCHANGED <<IS_CN, CONFIG_retry_count, fetch_content>>
    /\ UNCHANGED notFetch

\* lines 309-310, 317-337: the request fails (connection error, timeout,
\* non-2xx status, anything else); the error is recorded and the loop goes
\* on: next URL, or the end of the round (one retry less, then the delay
\* and a new round, or the final raise)
fetch_files_failure(err) ==
    /\ fetch_pc = "request"
    /\ fetch_log' = Append(fetch_log, [url |-> url_list[url_idx], ok |-> FALSE, body |-> None])
    /\ last_error' = err
    /\ IF url_idx < Len(url_list)
       THEN /\ url_idx' = url_idx + 1
            /\ UNCHANGED <<fetch_pc, retry_count, fetch_sleeps>>
       ELSE /\ retry_count' = retry_count - 1
            /\ IF retry_count - 1 > 0
               THEN /\ fetch_sleeps' = fetch_sleeps + 1
                    /\ url_idx' = 1
                    /\ fetch_pc' = "request"
               ELSE /\ fetch_sleeps' = fetch_sleeps
                    /\ url_idx' = url_idx
                    /\ fetch_pc' = "raised"
    /\ UNCHANGED <<IS_CN, CONFIG_retry_count, fetch_content>>
    /\ UNCHANGED notFetch

\* lines 314-316: KeyboardInterrupt is logged and re-raised at once
fetch_files_interrupt ==
    /\ fetch_pc = "request"
    /\ fetch_log' = Append(fetch_log, [url |-> url_list[url_idx], ok |-> FALSE, body |-> None])
    /\ fetch_pc' = "interrupted"
    /\ UNCHANGED <<IS_CN, CONFIG_retry_count, retry_count, url_idx, last_error,
                   fetch_sleeps, fetch_content>>
    /\ UNCHANGED notFetch

fetch_files_request_ok ==
    \E body \in Bodies : fetch_files_success(body)

fetch_files_request_failed ==
    \E err \in FetchErrors : fetch_files_failure(err)

fetch_files_Next ==
    \/ fetch_files_entry
    \/ fetch_files_request_ok
    \/ fetch_files_request_failed
    \/ fetch_files_interrupt

----------------------------------------------------------------------------
(* Text *)

\* the characters of the model in code-point order
Ascii ==
    << " ", "-", ".", "/", "0", "1", "2", "3", "4", "5", "6", "7", "8", "9", ":",
       "A", "B", "C", "D", "E", "F", "G", "H", "I", "J", "K", "L", "M", "N",
       "O", "P", "Q", "R", "S", "T", "U", "V", "W", "X", "Y", "Z", "_",
       "a", "b", "c", "d", "e", "f", "g", "h", "i", "j", "k", "l", "m", "n",
       "o", "p", "q", "r", "s", "t", "u", "v", "w", "x", "y", "z" >>

\* the rank of a character: the order of the code points
Ord(c) == CHOOSE i \in 1..Len(Ascii) : Ascii[i] = c

RECURSIVE StrGreater(_, _)
\* Python's a > b on strings: by code point, a proper prefix is smaller
StrGreater(a, b) ==
    IF a = << >> THEN FALSE
    ELSE IF b = << >> THEN TRUE
    ELSE IF Ord(Head(a)) # Ord(Head(b)) THEN Ord(Head(a)) > Ord(Head(b))
    ELSE StrGreater(Tail(a), Tail(b))

\* all texts over the characters cs of length lo..hi
Texts(cs, lo, hi) == UNION { [1..n -> cs] : n \in lo..hi }

\* s[from..] as a text
Drop(s, n) == SubSeq(s, n + 1, Len(s))

\* str.endswith
EndsWith(s, suffix) ==
    /\ Len(suffix) <= Len(s)
    /\ SubSeq(s, Len(s) - Len(suffix) + 1, Len(s)) = suffix

\* the positions at which sub occurs in s
Occurrences(s, sub) ==
    { i \in 1..(Len(s) - Len(sub) + 1) : SubSeq(s, i, i + Len(sub) - 1) = sub }

\* sub in s
Contains(s, sub) == Occurrences(s, sub) # {}

\* str.lower on one character: the letters A..Z are 26 ranks below _ a..z
LowerChar(c) ==
    IF Ord("A") <= Ord(c) /\ Ord(c) <= Ord("Z") THEN Ascii[Ord(c) + 27] ELSE c

\* str.lower
Lower(s) == [i \in 1..Len(s) |-> LowerChar(s[i])]

RECURSIVE Remove(_, _)
\* s.replace(sub, ""): the occurrences of sub are dropped from left to right
Remove(s, sub) ==
    IF Occurrences(s, sub) = {} THEN s
    ELSE LET i == CHOOSE k \in Occurrences(s, sub) : \A j \in Occurrences(s, sub) : k <= j
         IN SubSeq(s, 1, i - 1) \o Remove(Drop(s, i + Len(sub) - 1), sub)

\* s.split(sep, 1) of a text that holds the character sep
SplitFirst(s, sep) ==
    LET i == CHOOSE k \in 1..Len(s) : s[k] = sep /\ \A j \in 1..(k - 1) : s[j] # sep
    IN << SubSeq(s, 1, i - 1), Drop(s, i) >>

\* str.isdigit
IsDigit(s) ==
    /\ s # << >>
    /\ \A i \in 1..Len(s) : Ord("0") <= Ord(s[i]) /\ Ord(s[i]) <= Ord("9")

RECURSIVE IntOf(_)
\* int(s) of a text of digits
IntOf(s) ==
    IF s = << >> THEN 0
    ELSE IntOf(SubSeq(s, 1, Len(s) - 1)) * 10 + (Ord(s[Len(s)]) - Ord("0"))

\* the last component of a path
PathName(path) ==
    LET slashes == { i \in 1..Len(path) : path[i] = "/" }
    IN IF slashes = {} THEN path
       ELSE Drop(path, CHOOSE i \in slashes : \A j \in slashes : j <= i)

\* the directory part of a relative path, empty for a bare file name
PathParent(path) ==
    LET slashes == { i \in 1..Len(path) : path[i] = "/" }
    IN IF slashes = {} THEN << >>
       ELSE SubSeq(path, 1, (CHOOSE i \in slashes : \A j \in slashes : j <= i) - 1)

\* Path(path).stem: the name without its last suffix
PathStem(path) ==
    LET name == PathName(path)
        dots == { i \in 1..Len(name) : name[i] = "." }
        last == CHOOSE i \in dots : \A j \in dots : j <= i
    IN IF dots = {} THEN name
       ELSE IF 1 < last /\ last < Len(name) THEN SubSeq(name, 1, last - 1)
       ELSE name

----------------------------------------------------------------------------
(* get_latest_repo_info *)

REPO_LIST ==
    << "SteamAutoCracks/ManifestHub", "ikun0014/ManifestHub",
       "Auiowu/ManifestAutoUpdate", "tymolu233/ManifestAutoUpdate-fix" >>

\* the commit author timestamps a branch response can carry
Dates == Texts({"1", "9"}, 1, MaxDateLen)

\* the JSON bodies of a branch response: with commit data, non-empty
\* without it (a 404 message), or empty
BranchResponses ==
    [kind : {"commit"}, date : Dates] \cup {[kind |-> "no_commit"], [kind |-> "empty"]}

\* latest_date = None: no timestamp is the empty text
NoDate == << >>

SelIdle ==
    /\ sel_pc = "idle"
    /\ sel_idx = 0
    /\ latest_date = NoDate
    /\ selected_repo = None
    /\ sel_responses = << >>

\* lines 129-131
SelInit ==
    /\ sel_pc = "query"
    /\ sel_idx = 1
    /\ latest_date = NoDate
    /\ selected_repo = None
    /\ sel_responses = << >>

\* line 135
HasCommit(response_json) ==
    response_json.kind # "empty" /\ response_json.kind = "commit"

IsLater_NonStrict(date, latest) ==
    latest = NoDate \/ ~ StrGreater(latest, date)

\* line 137
IsLater(date, latest) ==
    latest = NoDate \/ StrGreater(date, latest)

get_latest_repo_info_response_Break(response_json) ==
    /\ sel_pc = "query"
    /\ sel_responses' = Append(sel_responses, response_json)
    /\ IF HasCommit(response_json) /\ IsLater(response_json.date, latest_date)
       THEN latest_date' = response_json.date /\ selected_repo' = REPO_LIST[sel_idx]
       ELSE UNCHANGED <<latest_date, selected_repo>>
    /\ sel_idx' = sel_idx + 1
    /\ sel_pc' = IF selected_repo' # None THEN "returned"
                 ELSE IF sel_idx < Len(REPO_LIST) THEN "query"
                 ELSE "not_found"
    /\ UNCHANGED notSel

\* lines 131-142: one pass of the loop from the answer of the request on,
\* and after the last repository the decision
get_latest_repo_info_response(response_json) ==
    /\ sel_pc = "query"
    /\ sel_responses' = Append(sel_responses, response_json)
    /\ IF HasCommit(response_json) /\ IsLater(response_json.date, latest_date)
       THEN latest_date' = response_json.date /\ selected_repo' = REPO_LIST[sel_idx]
       ELSE UNCHANGED <<latest_date, selected_repo>>
    /\ sel_idx' = sel_idx + 1
    /\ sel_pc' = IF sel_idx < Len(REPO_LIST) THEN "query"
                 ELSE IF selected_repo' = None \/ latest_date' = NoDate THEN "not_found"
                 ELSE "returned"
    /\ UNCHANGED notSel

\* lines 133-134: the request or the JSON decoding raises, the selector
\* propagates it
get_latest_repo_info_request_error ==
    /\ sel_pc = "query"
    /\ sel_pc' = "error"
    /\ UNCHANGED <<sel_idx, latest_date, selected_repo, sel_responses>>
    /\ UNCHANGED notSel

get_latest_repo_info_query ==
    \E r \in BranchResponses : get_latest_repo_info_response(r)

get_latest_repo_info_Next ==
    \/ get_latest_repo_info_query
    \/ get_latest_repo_info_request_error

----------------------------------------------------------------------------
(* parse_key *)

DepotIds == {"1", "2"}
Keys == {"ka", "kb"}

\* the text of a depot subsection: its depot id and its DecryptionKey
\* field, None when the subsection has no such field
Sections == [id : DepotIds, key : Keys \cup {None}]

\* the contents of a key file: bytes that are no UTF-8, text that is no
\* VDF, VDF without a "depots" section, or VDF whose "depots" section is a
\* list of depot subsections
KeyContents ==
    {[kind |-> "undecodable"], [kind |-> "syntax_error"], [kind |-> "no_depots"]}
    \cup { [kind |-> "vdf", depots |-> d] :
             d \in UNION { [1..n -> Sections] : n \in 0..MaxSections } }

\* the DecryptionKey of depot id after vdf.loads merged the subsections
\* named id: the field of the last one that has it
MergedKey(depots, id) ==
    LET has == { i \in 1..Len(depots) : depots[i].id = id /\ depots[i].key # None }
    IN IF has = {} THEN None
       ELSE depots[CHOOSE i \in has : \A j \in has : j <= i].key

\* vdf.loads(...)["depots"]: one entry per depot id, in the order of the
\* first subsection of each id (subsections of one name are merged)
vdf_loads_depots(depots) ==
    LET first == { i \in 1..Len(depots) : \A j \in 1..(i-1) : depots[j].id # depots[i].id }
        firsts == SelectSeq([i \in 1..Len(depots) |-> [pos |-> i, id |-> depots[i].id]],
                            LAMBDA e : e.pos \in first)
    IN [k \in 1..Len(firsts) |-> [id |-> firsts[k].id, key |-> MergedKey(depots, firsts[k].id)]]

\* lines 340-347: any exception (decoding, parsing, a missing "depots" or
\* "DecryptionKey") gives the empty list
parse_key(content) ==
    IF content.kind # "vdf" THEN << >>
    ELSE LET depots == vdf_loads_depots(content.depots)
         IN IF \E i \in 1..Len(depots) : depots[i].key = None
            THEN << >>
            ELSE [i \in 1..Len(depots) |-> <<depots[i].id, depots[i].key>>]

KeyIdle ==
    /\ key_pc = "idle"
    /\ key_content = [kind |-> "undecodable"]
    /\ key_result = << >>

KeyInit ==
    /\ key_pc = "call"
    /\ key_content \in KeyContents
    /\ key_result = << >>

parse_key_call ==
    /\ key_pc = "call"
    /\ key_result' = parse_key(key_content)
    /\ key_pc' = "done"
    /\ UNCHANGED key_content
    /\ UNCHANGED notKey

----------------------------------------------------------------------------
(* handle_depot_files and the unlock stage of main_gui *)

DotManifest == <<".", "m", "a", "n", "i", "f", "e", "s", "t">>
KeyVdf == <<"k", "e", "y", ".", "v", "d", "f">>

\* the paths a tree listing is made of, in the order of a listing
TreePathList ==
    << <<"1", "_", "3", "0">> \o DotManifest,
       <<"1", "_", "5">> \o DotManifest,
       <<"7">> \o DotManifest,
       <<"K", "e", "y", ".", "v", "d", "f">>,
       <<"R", "E", "A", "D", "M", "E">>,
       <<"a", "_", "1">> \o DotManifest,
       <<"d", "/", "1", "_", "5">> \o DotManifest,
       KeyVdf >>

\* the listing made of the entries of TreePathList at the positions S
Listing(S) ==
    LET picked == SelectSeq([i \in 1..Len(TreePathList) |-> i], LAMBDA i : i \in S)
    IN [k \in 1..Len(picked) |-> TreePathList[picked[k]]]

\* the tree listings: distinct paths, at most MaxTree of them
Trees ==
    { Listing(S) : S \in { X \in SUBSET (1..Len(TreePathList)) : Cardinality(X) <= MaxTree } }

\* line 228
IsManifest(file_path) == EndsWith(file_path, DotManifest)

\* line 241
IsKeyFile(file_path) == Contains(Lower(file_path), KeyVdf)

\* the manifest files depotcache can hold before the first run
OldBody == "b0"

Exists_Never(file_path) == file_path \in {}

\* line 230: save_path.exists()
Exists(file_path) == file_path \in DOMAIN disk

\* line 239: open(save_path, "wb") needs the directory of save_path
CanOpen(file_path) ==
    PathParent(file_path) = << >> \/ PathParent(file_path) \in dirs

RECURSIVE SortedDesc(_)
\* list.sort(key=int, reverse=True): stable, so of two ids of one value
\* the earlier stays first
SortedDesc(ids) ==
    IF ids = << >> THEN << >>
    ELSE LET rest == SortedDesc(SubSeq(ids, 1, Len(ids) - 1))
             x == ids[Len(ids)]
             before == SelectSeq(rest, LAMBDA y : IntOf(y) >= IntOf(x))
             after == SelectSeq(rest, LAMBDA y : IntOf(y) < IntOf(x))
         IN before \o <<x>> \o after

\* lines 251-260: the (depot_id, manifest_id) a tree path adds to the
\* index, << >> when it adds none
IndexPair(path) ==
    IF ~ EndsWith(path, DotManifest) THEN << >>
    ELSE LET filename == PathStem(path)
         IN IF ~ Contains(filename, <<"_">>) THEN << >>
            ELSE LET pair == SplitFirst(Remove(filename, DotManifest), "_")
                 IN IF IsDigit(pair[1]) /\ IsDigit(pair[2]) THEN pair ELSE << >>

\* lines 250-265: the version index of a tree listing
BuildIndex(tree) ==
    LET pairs == SelectSeq([i \in 1..Len(tree) |-> IndexPair(tree[i])],
                           LAMBDA pr : pr # << >>)
        depots == { pairs[i][1] : i \in 1..Len(pairs) }
        Ids(d) == LET mine == SelectSeq(pairs, LAMBDA pr : pr[1] = d)
                  IN [k \in 1..Len(mine) |-> mine[k][2]]
    IN [d \in depots |-> SortedDesc(Ids(d))]

\* an empty dict
EmptyMap == [d \in {} |-> << >>]

Event(op, path, ok) == [op |-> op, path |-> path, ok |-> ok]

\* whether parse_key ends in its except clause on this content
ParseFails(content) ==
    \/ content.kind # "vdf"
    \/ \E i \in 1..Len(content.depots) : MergedKey(content.depots, content.depots[i].id) = None

\* the contents fetch_files returns for a key file in a run: no UTF-8, one
\* depot, two depots, a depot without DecryptionKey, one depot twice
KeyFileContents ==
    { [kind |-> "undecodable"],
      [kind |-> "vdf", depots |-> << [id |-> "1", key |-> "ka"] >>],
      [kind |-> "vdf", depots |-> << [id |-> "1", key |-> "kb"], [id |-> "2", key |-> "ka"] >>],
      [kind |-> "vdf", depots |-> << [id |-> "2", key |-> "kb"], [id |-> "1", key |-> None] >>],
      [kind |-> "vdf", depots |-> << [id |-> "2", key |-> "ka"], [id |-> "2", key |-> "kb"] >>] }

RunIdle ==
    /\ repo_tree = << >>
    /\ pc = "idle"
    /\ idx = 0
    /\ depot_cache_exists = FALSE
    /\ dirs = {}
    /\ disk = << >>
    /\ collected = << >>
    /\ depot_map = EmptyMap
    /\ hdf_error = None
    /\ events = << >>
    /\ run_result = None
    /\ prev_ok = FALSE

\* the first unlock run reaches line 591: the repository has some tree, the
\* Steam directory has a depotcache or not, and depotcache some manifests
RunInit ==
    /\ repo_tree \in Trees
    /\ pc = "select"
    /\ idx = 0
    /\ depot_cache_exists \in BOOLEAN
    /\ dirs \in SUBSET { <<"d">> }
    /\ \E present \in SUBSET { TreePathList[i] : i \in 1..Len(TreePathList) } :
         /\ Cardinality(present) <= MaxPreexisting
         /\ \A path \in present : IsManifest(path) /\ CanOpen(path)
         /\ disk = [path \in present |-> OldBody]
    /\ ~ depot_cache_exists => (dirs = {} /\ disk = << >>)
    /\ collected = << >>
    /\ depot_map = EmptyMap
    /\ hdf_error = None
    /\ events = << >>
    /\ run_result = None
    /\ prev_ok = FALSE

\* lines 267-273: an except clause ran; collected and depot_map are
\* returned as they are
Aborted(kind) ==
    /\ hdf_error' = kind
    /\ pc' = "handled"
    /\ UNCHANGED <<idx, depot_map>>

\* the end of one pass of the loop of line 226: the next entry, or after
\* the last one lines 250-265 and the return
EntryDone ==
    /\ hdf_error' = hdf_error
    /\ IF idx < Len(repo_tree)
       THEN idx' = idx + 1 /\ pc' = "walk" /\ depot_map' = depot_map
       ELSE idx' = idx /\ pc' = "handled" /\ depot_map' = BuildIndex(repo_tree)

\* line 210: get_latest_repo_info returns a repository and its timestamp
hdf_select_returns ==
    /\ pc = "select"
    /\ pc' = "branch"
    /\ UNCHANGED <<repo_tree, idx, depot_cache_exists, dirs, disk, collected,
                   depot_map, hdf_error, events, run_result, prev_ok>>
    /\ UNCHANGED notRun

hdf_select_raises_MakesDepotcache ==
    /\ pc = "select"
    /\ Aborted("Exception")
    /\ depot_cache_exists' = TRUE
    /\ UNCHANGED <<repo_tree, dirs, disk, collected, events, run_result, prev_ok>>
    /\ UNCHANGED notRun

\* line 210: get_latest_repo_info raises (no repository has the branch, or
\* a request failed)
hdf_select_raises ==
    /\ pc = "select"
    /\ Aborted("Exception")
    /\ UNCHANGED <<repo_tree, depot_cache_exists, dirs, disk, collected,
                   events, run_result, prev_ok>>
    /\ UNCHANGED notRun

\* lines 212-216: the branch metadata request
hdf_branch_response(outcome) ==
    /\ pc = "branch"
    /\ CASE outcome = "ok" -> pc' = "tree" /\ UNCHANGED <<idx, depot_map, hdf_error>>
         [] outcome = "status" -> Aborted("HTTPStatusError")
         [] OTHER -> Aborted("Exception")
    /\ UNCHANGED <<repo_tree, depot_cache_exists, dirs, disk, collected,
                   events, run_result, prev_ok>>
    /\ UNCHANGED notRun

hdf_tree_response_MkdirFirst(outcome) ==
    /\ pc = "tree"
    /\ CASE outcome = "ok" ->
              /\ depot_cache_exists' = TRUE
              /\ IF repo_tree = << >>
                 THEN idx' = 0 /\ pc' = "handled" /\ depot_map' = BuildIndex(repo_tree)
                 ELSE idx' = 1 /\ pc' = "walk" /\ depot_map' = depot_map
              /\ hdf_error' = hdf_error
         [] outcome = "status" -> Aborted("HTTPStatusError") /\ depot_cache_exists' = TRUE
         [] outcome = "no_tree" -> Aborted("Exception") /\ depot_cache_exists' = TRUE
         [] OTHER -> Aborted("Exception") /\ UNCHANGED depot_cache_exists
    /\ UNCHANGED <<repo_tree, dirs, disk, collected, events, run_result, prev_ok>>
    /\ UNCHANGED notRun

\* lines 217-226: the tree listing request; when it answers 2xx depotcache
\* is made and the walk starts, unless the body has no "tree" (the KeyError
\* of line 226 comes after the mkdir of line 221)
hdf_tree_response(outcome) ==
    /\ pc = "tree"
    /\ CASE outcome = "ok" ->
              /\ depot_cache_exists' = TRUE
              /\ IF repo_tree = << >>
                 THEN idx' = 0 /\ pc' = "handled" /\ depot_map' = BuildIndex(repo_tree)
                 ELSE idx' = 1 /\ pc' = "walk" /\ depot_map' = depot_map
              /\ hdf_error' = hdf_error
         [] outcome = "status" -> Aborted("HTTPStatusError") /\ UNCHANGED depot_cache_exists
         [] outcome = "no_tree" -> Aborted("Exception") /\ depot_cache_exists' = TRUE
         [] OTHER -> Aborted("Exception") /\ UNCHANGED depot_cache_exists
    /\ UNCHANGED <<repo_tree, dirs, disk, collected, events, run_result, prev_ok>>
    /\ UNCHANGED notRun

hdf_manifest_exists_Overwrites ==
    /\ pc = "walk"
    /\ IsManifest(repo_tree[idx])
    /\ Exists(repo_tree[idx])
    /\ \E content \in Bodies :
         /\ disk' = [disk EXCEPT ![repo_tree[idx]] = content]
         /\ events' = events \o << Event("fetch", repo_tree[idx], TRUE),
                                   Event("write", repo_tree[idx], TRUE) >>
    /\ EntryDone
    /\ UNCHANGED <<repo_tree, depot_cache_exists, dirs, collected, run_result, prev_ok>>
    /\ UNCHANGED notRun

\* lines 228-232: the manifest is already there, the entry is passed over
hdf_manifest_exists ==
    /\ pc = "walk"
    /\ IsManifest(repo_tree[idx])
    /\ Exists(repo_tree[idx])
    /\ EntryDone
    /\ UNCHANGED <<repo_tree, depot_cache_exists, dirs, disk, collected,
                   events, run_result, prev_ok>>
    /\ UNCHANGED notRun

\* lines 233-240: the manifest is fetched and written, if its directory
\* is there to open it in
hdf_manifest_fetched(content) ==
    /\ pc = "walk"
    /\ IsManifest(repo_tree[idx])
    /\ ~ Exists(repo_tree[idx])
    /\ IF CanOpen(repo_tree[idx])
       THEN /\ disk' = [path \in DOMAIN disk \cup {repo_tree[idx]} |->
                          IF path = repo_tree[idx] THEN content ELSE disk[path]]
            /\ events' = events \o << Event("fetch", repo_tree[idx], TRUE),
                                      Event("write", repo_tree[idx], TRUE) >>
            /\ EntryDone
       ELSE /\ disk' = disk
            /\ events' = events \o << Event("fetch", repo_tree[idx], TRUE),
                                      Event("write", repo_tree[idx], FALSE) >>
            /\ Aborted("Exception")
    /\ UNCHANGED <<repo_tree, depot_cache_exists, dirs, collected, run_result, prev_ok>>
    /\ UNCHANGED notRun

\* lines 234-237, 243-246, 270-272: fetch_files raises for a manifest or a
\* key file
hdf_fetch_raises ==
    /\ pc = "walk"
    /\ \/ IsManifest(repo_tree[idx]) /\ ~ Exists(repo_tree[idx])
       \/ ~ IsManifest(repo_tree[idx]) /\ IsKeyFile(repo_tree[idx])
    /\ events' = Append(events, Event("fetch", repo_tree[idx], FALSE))
    /\ Aborted("Exception")
    /\ UNCHANGED <<repo_tree, depot_cache_exists, dirs, disk, collected,
                   run_result, prev_ok>>
    /\ UNCHANGED notRun

hdf_key_fetched_ParseRaises(content) ==
    /\ pc = "walk"
    /\ ~ IsManifest(repo_tree[idx])
    /\ IsKeyFile(repo_tree[idx])
    /\ events' = events \o << Event("fetch", repo_tree[idx], TRUE),
                              Event("parse", repo_tree[idx], ~ ParseFails(content)) >>
    /\ IF ParseFails(content)
       THEN collected' = collected /\ Aborted("Exception")
       ELSE collected' = collected \o parse_key(content) /\ EntryDone
    /\ UNCHANGED <<repo_tree, depot_cache_exists, dirs, disk, run_result, prev_ok>>
    /\ UNCHANGED notRun

\* lines 241-248: the key file is fetched and the pairs parse_key finds in
\* it are added to collected
hdf_key_fetched(content) ==
    /\ pc = "walk"
    /\ ~ IsManifest(repo_tree[idx])
    /\ IsKeyFile(repo_tree[idx])
    /\ collected' = collected \o parse_key(content)
    /\ events' = events \o << Event("fetch", repo_tree[idx], TRUE),
                              Event("parse", repo_tree[idx], ~ ParseFails(content)) >>
    /\ EntryDone
    /\ UNCHANGED <<repo_tree, depot_cache_exists, dirs, disk, run_result, prev_ok>>
    /\ UNCHANGED notRun

\* lines 226-241: an entry that is neither a manifest nor a key file
hdf_other_entry ==
    /\ pc = "walk"
    /\ ~ IsManifest(repo_tree[idx])
    /\ ~ IsKeyFile(repo_tree[idx])
    /\ EntryDone
    /\ UNCHANGED <<repo_tree, depot_cache_exists, dirs, disk, collected,
                   events, run_result, prev_ok>>
    /\ UNCHANGED notRun

\* lines 593-596: no key or no index, the run fails
main_gui_no_manifests ==
    /\ pc = "handled"
    /\ collected = << >> \/ depot_map = EmptyMap
    /\ run_result' = "failure"
    /\ pc' = "done"
    /\ UNCHANGED <<repo_tree, idx, depot_cache_exists, dirs, disk, collected,
                   depot_map, hdf_error, events, prev_ok>>
    /\ UNCHANGED notRun

main_gui_setup_unlock_KeysOnly(success) ==
    /\ pc = "handled"
    /\ collected # << >>
    /\ events' = Append(events, Event("setup", << >>, success))
    /\ run_result' = IF success THEN "success" ELSE "failure"
    /\ pc' = "done"
    /\ UNCHANGED <<repo_tree, idx, depot_cache_exists, dirs, disk, collected,
                   depot_map, hdf_error, prev_ok>>
    /\ UNCHANGED notRun

main_gui_setup_unlock_IndexOnly(success) ==
    /\ pc = "handled"
    /\ depot_map # EmptyMap
    /\ events' = Append(events, Event("setup", << >>, success))
    /\ run_result' = IF success THEN "success" ELSE "failure"
    /\ pc' = "done"
    /\ UNCHANGED <<repo_tree, idx, depot_cache_exists, dirs, disk, collected,
                   depot_map, hdf_error, prev_ok>>
    /\ UNCHANGED notRun

\* lines 598-606: setup_unlock is called and its answer is the run's
main_gui_setup_unlock(success) ==
    /\ pc = "handled"
    /\ ~ (collected = << >> \/ depot_map = EmptyMap)
    /\ events' = Append(events, Event("setup", << >>, success))
    /\ run_result' = IF success THEN "success" ELSE "failure"
    /\ pc' = "done"
    /\ UNCHANGED <<repo_tree, idx, depot_cache_exists, dirs, disk, collected,
                   depot_map, hdf_error, prev_ok>>
    /\ UNCHANGED notRun

\* lines 574-591, 206-209: the next unlock run on the same Steam directory
\* and the same repository tree
main_gui_unlock_again ==
    /\ pc = "done"
    /\ pc' = "select"
    /\ idx' = 0
    /\ collected' = << >>
    /\ depot_map' = EmptyMap
    /\ hdf_error' = None
    /\ events' = << >>
    /\ run_result' = None
    /\ prev_ok' = (hdf_error = None)
    /\ UNCHANGED <<repo_tree, depot_cache_exists, dirs, disk>>
    /\ UNCHANGED notRun

\* the paths of the tree listings the index is built from on its own:
\* those of TreePathList and manifest names with a leading zero, an empty
\* token, two underscores, a doubled suffix
IndexPathList ==
    TreePathList \o
    << <<"1", "_", "0", "5">> \o DotManifest,
       <<"1", "_">> \o DotManifest,
       <<"_", "5">> \o DotManifest,
       <<"1", "_", "2", "_", "3">> \o DotManifest,
       <<"2", "_", "4">> \o DotManifest \o DotManifest >>

\* the listings of at most MaxIndexTree distinct paths, in any order
IndexTrees ==
    { t \in UNION { [1..n -> { IndexPathList[i] : i \in 1..Len(IndexPathList) }] :
                      n \in 0..MaxIndexTree } :
        \A i, j \in 1..Len(t) : t[i] = t[j] => i = j }

\* the walk of a tree listing ended without an exception and without a
\* key file; line 250 is reached
IndexInit ==
    /\ repo_tree \in IndexTrees
    /\ pc = "index"
    /\ idx = Len(repo_tree)
    /\ depot_cache_exists = TRUE
    /\ dirs = {}
    /\ disk = << >>
    /\ collected = << >>
    /\ depot_map = EmptyMap
    /\ hdf_error = None
    /\ events = << >>
    /\ run_result = None
    /\ prev_ok = FALSE

\* lines 250-273: the index is built and handle_depot_files returns
hdf_build_index ==
    /\ pc = "index"
    /\ depot_map' = BuildIndex(repo_tree)
    /\ pc' = "handled"
    /\ UNCHANGED <<repo_tree, idx, depot_cache_exists, dirs, disk, collected,
                   hdf_error, events, run_result, prev_ok>>
    /\ UNCHANGED notRun

hdf_branch == \E outcome \in {"ok", "status", "error"} : hdf_branch_response(outcome)

hdf_tree ==
    \E outcome \in {"ok", "status", "no_tree", "error"} : hdf_tree_response(outcome)

hdf_manifest == \E content \in Bodies : hdf_manifest_fetched(content)

hdf_key == \E content \in KeyFileContents : hdf_key_fetched(content)

main_gui_setup == \E success \in BOOLEAN : main_gui_setup_unlock(success)

Next ==
    \/ hdf_select_returns
    \/ hdf_select_raises
    \/ hdf_branch
    \/ hdf_tree
    \/ hdf_manifest_exists
    \/ hdf_manifest
    \/ hdf_fetch_raises
    \/ hdf_key
    \/ hdf_other_entry
    \/ main_gui_no_manifests
    \/ main_gui_setup
    \/ main_gui_unlock_again

----------------------------------------------------------------------------
(* setup_steamtools *)

\* the lists depot_data that main_gui gives to setup_unlock (line 593: not
\* empty); one depot_id can be there twice
DepotData ==
    UNION { [1..n -> { <<d, k>> : d \in DepotIds, k \in Keys }] : n \in 1..MaxPairs }

\* the maps depot_map that main_gui gives to setup_unlock (line 593: not
\* empty)
IndexMaps ==
    UNION { [D -> { <<"30", "5">>, <<"5">> }] : D \in (SUBSET DepotIds) \ {{}} }

\* the title the run is for
AppIds == {"9"}

\* line 392, 399, 401: addappid(id, 1, "key")
GrantLine(id, key) == [fn |-> "addappid", id |-> id, arg |-> key]

\* line 399: setManifestid(id,"manifest_id")
PinLine(id, manifest_id) == [fn |-> "setManifestid", id |-> id, arg |-> manifest_id]

\* a file of lines that is not there
NoFile == [exists |-> FALSE, lines |-> << >>]

\* the script a run for this title wrote before
OldLua(id) == [exists |-> TRUE, lines |-> << GrantLine(id, "None") >>]

versionlock_Requested == TRUE

\* line 396
versionlock == FALSE

\* lines 397-401: what the loop adds for one pair of depot_data
DepotBlock(d_id, d_key, dmap) ==
    IF versionlock
    THEN [j \in 1..(2 * Len(dmap[d_id])) |->
            IF j % 2 = 1 THEN GrantLine(d_id, d_key)
            ELSE PinLine(d_id, dmap[d_id][j \div 2])]
    ELSE << GrantLine(d_id, d_key) >>

RECURSIVE LuaBlocks(_, _)
\* lines 393-401
LuaBlocks(data, dmap) ==
    IF data = << >> THEN << >>
    ELSE LuaBlocks(SubSeq(data, 1, Len(data) - 1), dmap)
           \o DepotBlock(data[Len(data)][1], data[Len(data)][2], dmap)

\* lines 392-401: the lines of lua_content
lua_content(id, data, dmap) == << GrantLine(id, "None") >> \o LuaBlocks(data, dmap)

\* line 398: depot_map[d_id] raises KeyError
LockKeyError(data, dmap) ==
    versionlock /\ \E i \in 1..Len(data) : data[i][1] \notin DOMAIN dmap

CfgIdle ==
    /\ setup_pc = "idle"
    /\ depot_data = << >>
    /\ st_app_id = None
    /\ st_depot_map = << >>
    /\ choice = None
    /\ config_exists = FALSE
    /\ stplug_in_exists = FALSE
    /\ lua_file = NoFile
    /\ applist_exists = FALSE
    /\ applist = << >>
    /\ config_vdf = [kind |-> "missing"]
    /\ applist_old = << >>
    /\ config_vdf_old = [kind |-> "missing"]
    /\ setup_result = None
    /\ failed_at = None

\* setup_unlock calls setup_steamtools (line 360)
SteamtoolsInit ==
    /\ setup_pc = "call"
    /\ depot_data \in DepotData
    /\ st_app_id \in AppIds
    /\ st_depot_map \in IndexMaps
    /\ choice \in {"y", "n"}
    /\ config_exists \in BOOLEAN
    /\ stplug_in_exists \in BOOLEAN
    /\ stplug_in_exists => config_exists
    /\ lua_file \in {NoFile, OldLua(st_app_id)}
    /\ lua_file.exists => stplug_in_exists
    /\ applist_exists = FALSE
    /\ applist = << >>
    /\ config_vdf = [kind |-> "missing"]
    /\ applist_old = << >>
    /\ config_vdf_old = [kind |-> "missing"]
    /\ setup_result = None
    /\ failed_at = None

\* lines 379-411; writable: whether open(lua_file, "w") succeeds
setup_steamtools(writable) ==
    /\ setup_pc = "call"
    /\ IF ~ config_exists
       THEN \* line 382: mkdir without parents raises, outside the try
            /\ setup_pc' = "raised"
            /\ UNCHANGED <<stplug_in_exists, lua_file, setup_result>>
       ELSE /\ stplug_in_exists' = TRUE
            /\ IF LockKeyError(depot_data, st_depot_map)
               THEN /\ setup_pc' = "raised"
                    /\ UNCHANGED <<lua_file, setup_result>>
               ELSE /\ setup_pc' = "returned"
                    /\ IF writable
                       THEN /\ lua_file' = [exists |-> TRUE,
                                            lines |-> lua_content(st_app_id, depot_data,
                                                                  st_depot_map)]
                            /\ setup_result' = "True"
                       ELSE /\ lua_file' = lua_file
                            /\ setup_result' = "False"
    /\ UNCHANGED <<depot_data, st_app_id, st_depot_map, choice, config_exists,
                   applist_exists, applist, config_vdf, applist_old, config_vdf_old,
                   failed_at>>
    /\ UNCHANGED notCfg

setup_steamtools_call == \E writable \in BOOLEAN : setup_steamtools(writable)

----------------------------------------------------------------------------
(* setup_greenluma *)

DotTxt == <<".", "t", "x", "t">>

\* the names of the files AppList can hold before the call
AppListNames ==
    { <<"1">> \o DotTxt, <<"7">> \o DotTxt, <<"n", ".", "m", "d">> }

\* what those files hold
OldText == "old"

RECURSIVE StrOfInt(_)
\* str(i) of a positive integer
StrOfInt(i) ==
    IF i < 10 THEN << Ascii[Ord("0") + i] >>
    ELSE StrOfInt(i \div 10) \o << Ascii[Ord("0") + (i % 10)] >>

\* line 424: f"{idx}.txt"
IdxName(i) == StrOfInt(i) \o DotTxt

\* line 420: the names glob("*.txt") gives
IsTxt(name) == EndsWith(name, DotTxt)

Unlinked_Nothing(files) == files

\* lines 420-421: the files left when every *.txt is unlinked
Unlinked(files) ==
    [name \in { n \in DOMAIN files : ~ IsTxt(n) } |-> files[name]]

\* lines 423-424: the files after one {idx}.txt per pair is written
WithIdxFiles(files, data) ==
    [name \in DOMAIN files \cup { IdxName(i) : i \in 1..Len(data) } |->
       IF \E i \in 1..Len(data) : name = IdxName(i)
       THEN data[CHOOSE i \in 1..Len(data) : name = IdxName(i)][1]
       ELSE files[name]]

\* the fields of one depot subsection of config.vdf
DepotFields ==
    { f \in UNION { [F -> Keys \cup {"n"}] : F \in SUBSET {"DecryptionKey", "Note"} } :
        /\ "DecryptionKey" \in DOMAIN f => f["DecryptionKey"] \in Keys
        /\ "Note" \in DOMAIN f => f["Note"] = "n" }

\* what vdf.loads gives for config.vdf: the top-level sections other than
\* "depots", whether there is a "depots" section, and its subsections
Stores ==
    { st \in [others : SUBSET {"Software"},
              has_depots : BOOLEAN,
              depots : UNION { [D -> DepotFields] : D \in SUBSET DepotIds }] :
        ~ st.has_depots => DOMAIN st.depots = {} }

\* config.vdf: not there, text that vdf.loads rejects, or the text of a
\* store, indented (as Steam writes it) or not (as vdf.dumps writes it),
\* followed by tail more characters
ConfigFiles ==
    { [kind |-> "missing"], [kind |-> "unparsable"] }
    \cup { [kind |-> "vdf", store |-> st, pretty |-> p, tail |-> 0] :
             st \in Stores, p \in BOOLEAN }

RECURSIVE Sum(_)
\* the sum of the values of a function
Sum(f) ==
    IF DOMAIN f = {} THEN 0
    ELSE LET x == CHOOSE y \in DOMAIN f : TRUE
         IN f[x] + Sum([y \in DOMAIN f \ {x} |-> f[y]])

\* the length of the text vdf.dumps(store, pretty) gives: a section is
\* "name"\n{\n ... }\n, a field is "name" "value"\n, and pretty puts one
\* tab per level before each line
DumpLen(st, pretty) ==
    LET tab == IF pretty THEN 1 ELSE 0
        DepotLen(d) ==
            Len(d) + 7 + 3 * tab
            + Sum([f \in DOMAIN st.depots[d] |->
                     Len(f) + Len(st.depots[d][f]) + 6 + 2 * tab])
    IN Sum([name \in st.others |-> Len(name) + 7])
       + (IF st.has_depots
          THEN Len("depots") + 7 + Sum([d \in DOMAIN st.depots |-> DepotLen(d)])
          ELSE 0)

\* the key of the last pair of data for depot d: in the dict of lines
\* 429-430 a later pair takes the place of an earlier one
LastKey(data, d) ==
    data[CHOOSE i \in 1..Len(data) :
           data[i][1] = d /\ \A j \in (i + 1)..Len(data) : data[j][1] # d][2]

\* lines 428-430: content.setdefault("depots", {}).update({d_id: {...}})
Merged(st, data) ==
    LET ids == { data[i][1] : i \in 1..Len(data) }
    IN [others |-> st.others,
        has_depots |-> TRUE,
        depots |-> [d \in DOMAIN st.depots \cup ids |->
                      IF d \in ids THEN [f \in {"DecryptionKey"} |-> LastKey(data, d)]
                      ELSE st.depots[d]]]

OpenedConfig_Truncated(file) ==
    [kind |-> "vdf",
     store |-> [others |-> {}, has_depots |-> FALSE, depots |-> << >>],
     pretty |-> FALSE, tail |-> 0]

\* line 427: the file after open(config_path, "r+"), which keeps the text
OpenedConfig(file) == file

\* lines 431-432: the file after seek(0) and write of the merged store; what
\* the old text had beyond the length of the new one stays
Rewritten(file, st) ==
    LET old_len == DumpLen(file.store, file.pretty) + file.tail
        new_len == DumpLen(st, FALSE)
    IN [kind |-> "vdf", store |-> st, pretty |-> FALSE,
        tail |-> IF old_len > new_len THEN old_len - new_len ELSE 0]

\* setup_unlock calls setup_greenluma (line 367)
GreenlumaInit ==
    /\ setup_pc = "call"
    /\ depot_data \in DepotData
    /\ st_app_id = None
    /\ st_depot_map = << >>
    /\ choice = None
    /\ config_exists \in BOOLEAN
    /\ stplug_in_exists = FALSE
    /\ lua_file = NoFile
    /\ applist_exists \in BOOLEAN
    /\ applist \in UNION { [S -> {OldText}] : S \in SUBSET AppListNames }
    /\ ~ applist_exists => applist = << >>
    /\ config_vdf \in ConfigFiles
    /\ ~ config_exists => config_vdf.kind = "missing"
    /\ applist_old = applist
    /\ config_vdf_old = config_vdf
    /\ setup_result = None
    /\ failed_at = None

\* the file a failed write or flush of line 432 can leave: nothing written
\* yet, or the new text written in part over the old one
PartlyWritten(file) == { file, [kind |-> "unparsable"] }

\* lines 414-438; fails_at: the file operation that raises OSError, if any.
\* mkdir (lines 416-417) is before the try; unlink, write_text, open and
\* write are inside it, as is vdf.loads. An unlink can fail after other
\* files are gone (glob gives them in no fixed order)
setup_greenluma(fails_at) ==
    /\ setup_pc = "call"
    /\ CASE fails_at = "mkdir" ->
              /\ ~ applist_exists
              /\ setup_pc' = "raised"
              /\ failed_at' = "mkdir"
              /\ UNCHANGED <<applist_exists, applist, config_vdf, setup_result>>
         [] fails_at = "unlink" ->
              /\ setup_pc' = "returned"
              /\ failed_at' = "unlink"
              /\ applist_exists' = TRUE
              /\ \E failing \in { n \in DOMAIN applist : IsTxt(n) } :
                   \E gone \in SUBSET ({ n \in DOMAIN applist : IsTxt(n) } \ {failing}) :
                     applist' = [name \in DOMAIN applist \ gone |-> applist[name]]
              /\ config_vdf' = config_vdf
              /\ setup_result' = "False"
         [] fails_at = "write_text" ->
              /\ depot_data # << >>
              /\ setup_pc' = "returned"
              /\ failed_at' = "write_text"
              /\ applist_exists' = TRUE
              /\ applist' = Unlinked(applist)
              /\ config_vdf' = config_vdf
              /\ setup_result' = "False"
         [] OTHER ->
              /\ setup_pc' = "returned"
              /\ applist_exists' = TRUE
              /\ applist' = WithIdxFiles(Unlinked(applist), depot_data)
              /\ IF config_vdf.kind = "missing"
                 THEN /\ fails_at = "none"
                      /\ failed_at' = "open"
                      /\ config_vdf' = config_vdf
                      /\ setup_result' = "False"
                 ELSE IF OpenedConfig(config_vdf).kind # "vdf"
                 THEN /\ fails_at = "none"
                      /\ failed_at' = "loads"
                      /\ config_vdf' = OpenedConfig(config_vdf)
                      /\ setup_result' = "False"
                 ELSE IF fails_at = "write"
                 THEN /\ failed_at' = "write"
                      /\ config_vdf' \in PartlyWritten(OpenedConfig(config_vdf))
                      /\ setup_result' = "False"
                 ELSE /\ failed_at' = None
                      /\ config_vdf' = Rewritten(OpenedConfig(config_vdf),
                                                 Merged(OpenedConfig(config_vdf).store,
                                                        depot_data))
                      /\ setup_result' = "True"
    /\ UNCHANGED <<depot_data, st_app_id, st_depot_map, choice, config_exists,
                   stplug_in_exists, lua_file, applist_old, config_vdf_old>>
    /\ UNCHANGED notCfg

setup_greenluma_call ==
    \E fails_at \in {"none", "mkdir", "unlink", "write_text", "write"} :
        setup_greenluma(fails_at)

----------------------------------------------------------------------------
(* main_gui up to the call of handle_depot_files *)

RECURSIVE Strip(_)
\* str.strip(): the white space at both ends is dropped
Strip(s) ==
    IF s = << >> THEN s
    ELSE IF Head(s) = " " THEN Strip(Tail(s))
    ELSE IF s[Len(s)] = " " THEN Strip(SubSeq(s, 1, Len(s) - 1))
    ELSE s

RECURSIVE SplitAll(_, _)
\* s.split(sep): the pieces of s between the occurrences of sep
SplitAll(s, sep) ==
    IF \A i \in 1..Len(s) : s[i] # sep THEN << s >>
    ELSE << SplitFirst(s, sep)[1] >> \o SplitAll(SplitFirst(s, sep)[2], sep)

\* the texts the window gives to main_gui (gui.py:813-816, 836-839): what
\* was typed, stripped, and not empty
AppIdInputs ==
    { s \in Texts({"1", "2", "a", "-", " "}, 1, MaxInputLen) : Strip(s) = s }

app_id_list_Unfiltered(input) == SplitAll(Strip(input), "-")

\* lines 509, 577: list(filter(str.isdigit, app_id.strip().split("-")))
app_id_list(input) == SelectSeq(SplitAll(Strip(input), "-"), IsDigit)

\* one network request: what is asked for, and for which title
Request(what, id) == [what |-> what, id |-> id]

GuiIdle ==
    /\ stage = None
    /\ app_id_input = << >>
    /\ gui_pc = "idle"
    /\ app_id = << >>
    /\ gui_status = None
    /\ gui_requests = << >>
    /\ gui_result = None

\* the worker calls main_gui (gui.py:296)
GuiInit ==
    /\ stage \in {"view", "unlock"}
    /\ app_id_input \in AppIdInputs
    /\ gui_pc = "start"
    /\ app_id = << >>
    /\ gui_status = None
    /\ gui_requests = << >>
    /\ gui_result = None

\* lines 509-515, 577-582: no token of digits, the call returns
main_gui_invalid_appid ==
    /\ gui_pc = "start"
    /\ app_id_list(app_id_input) = << >>
    /\ gui_status' = "Error: Invalid AppID"
    /\ gui_result' = "False"
    /\ gui_pc' = "returned"
    /\ UNCHANGED <<stage, app_id_input, app_id, gui_requests>>
    /\ UNCHANGED <<fetchVars, runVars, regVars>>
    /\ UNCHANGED notGui

\* lines 517-518: stage "view", up to the request of get_game_name
main_gui_view_start ==
    /\ gui_pc = "start"
    /\ stage = "view"
    /\ app_id_list(app_id_input) # << >>
    /\ app_id' = app_id_list(app_id_input)[1]
    /\ gui_requests' = << Request("name", app_id') >>
    /\ gui_pc' = "name"
    /\ UNCHANGED <<stage, app_id_input, gui_status, gui_result>>
    /\ UNCHANGED <<fetchVars, runVars, regVars>>
    /\ UNCHANGED notGui

\* lines 518-520: get_game_name, then get_game_developers, answered
main_gui_view_next ==
    /\ gui_pc \in {"name", "developers"}
    /\ IF gui_pc = "name"
       THEN /\ gui_requests' = Append(gui_requests, Request("developers", app_id))
            /\ gui_pc' = "developers"
       ELSE /\ gui_requests' = Append(gui_requests, Request("publishers", app_id))
            /\ gui_pc' = "publishers"
    /\ UNCHANGED <<stage, app_id_input, app_id, gui_status, gui_result>>
    /\ UNCHANGED <<fetchVars, runVars, regVars>>
    /\ UNCHANGED notGui

\* lines 520-566: get_game_publishers answered; found: whether
\* get_game_name gave a name
main_gui_view_result(found) ==
    /\ gui_pc = "publishers"
    /\ gui_pc' = "returned"
    /\ IF found
       THEN /\ gui_requests' = Append(gui_requests, Request("icon", app_id))
            /\ gui_result' = "True"
            /\ gui_status' = gui_status
       ELSE /\ gui_requests' = gui_requests
            /\ gui_result' = "False"
            /\ gui_status' = gui_status
    /\ UNCHANGED <<stage, app_id_input, app_id>>
    /\ UNCHANGED <<fetchVars, runVars, regVars>>
    /\ UNCHANGED notGui

main_gui_view_done == \E found \in BOOLEAN : main_gui_view_result(found)

\* lines 583-585: stage "unlock", up to the request of check_location
main_gui_unlock_start ==
    /\ gui_pc = "start"
    /\ stage = "unlock"
    /\ app_id_list(app_id_input) # << >>
    /\ app_id' = app_id_list(app_id_input)[1]
    /\ gui_requests' = << Request("iscn", << >>) >>
    /\ gui_pc' = "location"
    /\ UNCHANGED <<stage, app_id_input, gui_status, gui_result>>
    /\ UNCHANGED <<fetchVars, runVars, regVars>>
    /\ UNCHANGED notGui

\* the ways check_location (lines 76-96) ends: the service says mainland
\* China, or abroad, or abroad in a body without "country" (KeyError at
\* line 83); the request times out; anything else fails
LocationOutcomes == {"cn", "abroad", "abroad_no_country", "timeout", "error"}

\* lines 81-96: the value check_location assigns to variable.IS_CN
check_location(outcome) == outcome # "abroad"

main_gui_location_checked_SkipsOnTimeout(outcome) ==
    /\ gui_pc = "location"
    /\ IS_CN' = IF outcome = "timeout" THEN IS_CN ELSE check_location(outcome)
    /\ IS_CN_assigned' = (IS_CN_assigned \/ outcome # "timeout")
    /\ gui_requests' = Append(gui_requests, Request("rate_limit", << >>))
    /\ gui_pc' = "rate_limit"
    /\ UNCHANGED <<stage, app_id_input, app_id, gui_status, gui_result>>
    /\ UNCHANGED <<fetchLocals, runVars>>
    /\ UNCHANGED notGui

\* lines 76-96, 585-587: check_location sets the region flag (True when
\* the request failed), then check_rate_limit sends its request
main_gui_location_checked(outcome) ==
    /\ gui_pc = "location"
    /\ IS_CN' = check_location(outcome)
    /\ IS_CN_assigned' = TRUE
    /\ gui_requests' = Append(gui_requests, Request("rate_limit", << >>))
    /\ gui_pc' = "rate_limit"
    /\ UNCHANGED <<stage, app_id_input, app_id, gui_status, gui_result>>
    /\ UNCHANGED <<fetchLocals, runVars>>
    /\ UNCHANGED notGui

main_gui_location ==
    \E outcome \in LocationOutcomes : main_gui_location_checked(outcome)

\* lines 587-589: check_rate_limit ends, check_for_updates sends its request
main_gui_rate_limit_checked ==
    /\ gui_pc = "rate_limit"
    /\ gui_requests' = Append(gui_requests, Request("releases", << >>))
    /\ gui_pc' = "updates"
    /\ UNCHANGED <<stage, app_id_input, app_id, gui_status, gui_result>>
    /\ UNCHANGED <<fetchVars, runVars, regVars>>
    /\ UNCHANGED notGui

\* lines 589-591: check_for_updates ends, handle_depot_files is called
\* for app_id; the run goes on as Spec shows
main_gui_updates_checked ==
    /\ gui_pc = "updates"
    /\ gui_pc' = "handle"
    /\ pc' = "select"
    /\ UNCHANGED <<stage, app_id_input, app_id, gui_status, gui_requests, gui_result>>
    /\ UNCHANGED <<fetchVars, runLocals, regVars>>
    /\ UNCHANGED notGui

main_gui_Next ==
    \/ main_gui_invalid_appid
    \/ main_gui_view_start
    \/ main_gui_view_next
    \/ main_gui_view_done
    \/ main_gui_unlock_start
    \/ main_gui_location
    \/ main_gui_rate_limit_checked
    \/ main_gui_updates_checked

----------------------------------------------------------------------------
(* The region flag over unlock runs: check_location, then the fetch_files *)
(* calls of handle_depot_files                                            *)

\* the texts of one character typed into the AppID field
RegionInputs == { input \in AppIdInputs : Len(input) = 1 }

\* the fetch_files calls of this call of main_gui so far
FetchCalls == { k \in 1..Len(gui_requests) : gui_requests[k].what = "fetch_files" }

\* the program has started (variable.py:119 leaves IS_CN unassigned: the
\* value it has in the model until the first assignment stands for none),
\* the configuration is loaded, and the first worker calls main_gui
RegionInit ==
    /\ IS_CN_assigned = FALSE
    /\ IS_CN = TRUE
    /\ CONFIG_retry_count \in 0..MaxRetry
    /\ fetch_pc = "idle"
    /\ retry_count = 0
    /\ url_idx = 0
    /\ last_error = None
    /\ fetch_log = << >>
    /\ fetch_sleeps = 0
    /\ fetch_content = None
    /\ stage \in {"view", "unlock"}
    /\ app_id_input \in RegionInputs
    /\ gui_pc = "start"
    /\ app_id = << >>
    /\ gui_status = None
    /\ gui_requests = << >>
    /\ gui_result = None

\* lines 234-237, 243-246: handle_depot_files calls fetch_files for an
\* entry of the tree, after the call for the entry before has returned
hdf_calls_fetch_files ==
    /\ gui_pc = "handle"
    /\ fetch_pc \in {"idle", "returned"}
    /\ Cardinality(FetchCalls) < MaxFetchCalls
    /\ gui_requests' = Append(gui_requests, Request("fetch_files", app_id))
    /\ fetch_pc' = "entry"
    /\ retry_count' = 0
    /\ url_idx' = 0
    /\ last_error' = None
    /\ fetch_log' = << >>
    /\ fetch_sleeps' = 0
    /\ fetch_content' = None
    /\ UNCHANGED <<IS_CN, CONFIG_retry_count>>
    /\ UNCHANGED <<stage, app_id_input, gui_pc, app_id, gui_status, gui_result>>
    /\ UNCHANGED <<runVars, notGui, regVars>>

\* lines 591-610: handle_depot_files has returned (its walk ended, or a
\* fetch_files call raised, or a request before the walk failed) and
\* main_gui returns
main_gui_handle_returns(success) ==
    /\ gui_pc = "handle"
    /\ fetch_pc \in {"idle", "returned", "raised", "interrupted"}
    /\ fetch_pc \in {"raised", "interrupted"} => ~ success
    /\ gui_pc' = "returned"
    /\ gui_result' = IF success THEN "True" ELSE "False"
    /\ pc' = "idle"
    /\ UNCHANGED <<stage, app_id_input, app_id, gui_status, gui_requests>>
    /\ UNCHANGED <<fetchVars, runLocals, regVars>>
    /\ UNCHANGED notGui

\* gui.py:826-851: the next click starts a worker that calls main_gui
\* again, in the same process
main_gui_called_again ==
    /\ gui_pc = "returned"
    /\ stage' \in {"view", "unlock"}
    /\ app_id_input' \in RegionInputs
    /\ gui_pc' = "start"
    /\ app_id' = << >>
    /\ gui_status' = None
    /\ gui_requests' = << >>
    /\ gui_result' = None
    /\ fetch_pc' = "idle"
    /\ retry_count' = 0
    /\ url_idx' = 0
    /\ last_error' = None
    /\ fetch_log' = << >>
    /\ fetch_sleeps' = 0
    /\ fetch_content' = None
    /\ UNCHANGED <<IS_CN, CONFIG_retry_count>>
    /\ UNCHANGED <<runVars, notGui, regVars>>

region_Next ==
    \/ main_gui_Next
    \/ hdf_calls_fetch_files
    \/ fetch_files_Next
    \/ \E success \in BOOLEAN : main_gui_handle_returns(success)
    \/ main_gui_called_again

----------------------------------------------------------------------------
(* The window: AsyncWorker, the buttons, the input prompt and closeEvent *)

\* gui.py:260-271: a worker as AsyncWorker.__init__ leaves it, started;
\* prompts counts the prompts of the callback while it runs
Worker(st) ==
    [stage |-> st, pc |-> "callback", is_running |-> TRUE, event |-> FALSE,
     response |-> None, prompts |-> 0, outcome |-> None, emitted |-> 0,
     handled |-> FALSE]

\* QThread.isRunning: run has not returned yet
isRunning(w) == w.pc # "finished"

WkIdle ==
    /\ view_btn = FALSE
    /\ start_btn = FALSE
    /\ input_frame = FALSE
    /\ workers = << >>
    /\ gui_events = << >>
    /\ close_pc = "idle"
    /\ close_idx = 0

\* gui.py:475-616: the window after setup_ui: View can be clicked, Start
\* Unlock and the input buttons are hidden
WkInit ==
    /\ view_btn = TRUE
    /\ start_btn = FALSE
    /\ input_frame = FALSE
    /\ workers = << >>
    /\ gui_events = << >>
    /\ close_pc = "open"
    /\ close_idx = 0

\* gui.py:812-816, 836-840: the AppID field is empty, the handler returns
on_click_no_appid ==
    /\ close_pc = "open"
    /\ view_btn \/ start_btn
    /\ gui_status # "Please enter AppID!"
    /\ gui_status' = "Please enter AppID!"
    /\ UNCHANGED <<stage, app_id_input, gui_pc, app_id, gui_requests, gui_result>>
    /\ UNCHANGED wkVars
    /\ UNCHANGED notWk

\* gui.py:812-834 (st = "view") and 836-851 (st = "unlock"): the buttons
\* are disabled, a worker is made, kept in self.workers and started
on_click(st) ==
    /\ close_pc = "open"
    /\ IF st = "view" THEN view_btn ELSE start_btn
    /\ Len(workers) < MaxWorkers
    /\ view_btn' = FALSE
    /\ start_btn' = FALSE
    /\ workers' = Append(workers, Worker(st))
    /\ UNCHANGED <<input_frame, gui_events, close_pc, close_idx>>
    /\ UNCHANGED guiVars
    /\ UNCHANGED notWk

on_view == on_click("view")

on_start_unlock == on_click("unlock")

\* gui.py:278-279: the callback calls input(), which run replaced by
\* _blocking_input (line 292): request_input is emitted and the thread
\* waits for the event
AsyncWorker_blocking_input(i) ==
    /\ workers[i].pc = "callback"
    /\ workers[i].prompts < MaxPrompts
    /\ workers' = [workers EXCEPT ![i].pc = "input", ![i].prompts = @ + 1]
    /\ gui_events' = Append(gui_events, [signal |-> "request_input", worker |-> i])
    /\ UNCHANGED <<view_btn, start_btn, input_frame, close_pc, close_idx>>
    /\ UNCHANGED guiVars
    /\ UNCHANGED notWk

\* gui.py:280-283: the event is set; the response is taken and the event
\* cleared
AsyncWorker_input_returns(i) ==
    /\ workers[i].pc = "input"
    /\ workers[i].event
    /\ workers' = [workers EXCEPT ![i].pc = "callback", ![i].event = FALSE,
                                  ![i].response = None]
    /\ UNCHANGED <<view_btn, start_btn, input_frame, gui_events, close_pc, close_idx>>
    /\ UNCHANGED guiVars
    /\ UNCHANGED notWk

\* gui.py:296, 299: the callback returns its result, success "True" or
\* "False" (main.py:498-610), or raises
AsyncWorker_callback_ends(i, outcome) ==
    /\ workers[i].pc = "callback"
    /\ workers' = [workers EXCEPT
                     ![i].pc = IF outcome = "raised" THEN "raised" ELSE "returned",
                     ![i].outcome = outcome,
                     ![i].prompts = 0]
    /\ UNCHANGED <<view_btn, start_btn, input_frame, gui_events, close_pc, close_idx>>
    /\ UNCHANGED guiVars
    /\ UNCHANGED notWk

AsyncWorker_checks_is_running_Skips(i) ==
    /\ workers[i].pc \in {"returned", "raised"}
    /\ workers' = [workers EXCEPT
                     ![i].pc = IF workers[i].is_running /\ workers[i].pc = "returned"
                               THEN "emit" ELSE "finished"]
    /\ UNCHANGED <<view_btn, start_btn, input_frame, gui_events, close_pc, close_idx>>
    /\ UNCHANGED guiVars
    /\ UNCHANGED notWk

\* gui.py:297, 301: is_running is read, after the return as after the raise
AsyncWorker_checks_is_running(i) ==
    /\ workers[i].pc \in {"returned", "raised"}
    /\ workers' = [workers EXCEPT
                     ![i].pc = IF workers[i].is_running THEN "emit" ELSE "finished"]
    /\ UNCHANGED <<view_btn, start_btn, input_frame, gui_events, close_pc, close_idx>>
    /\ UNCHANGED guiVars
    /\ UNCHANGED notWk

\* gui.py:298, 302, 303-309: finished is emitted, queued for the GUI
\* thread, and run ends
AsyncWorker_emits_finished(i) ==
    /\ workers[i].pc = "emit"
    /\ workers' = [workers EXCEPT ![i].pc = "finished", ![i].emitted = @ + 1]
    /\ gui_events' = Append(gui_events, [signal |-> "finished", worker |-> i])
    /\ UNCHANGED <<view_btn, start_btn, input_frame, close_pc, close_idx>>
    /\ UNCHANGED guiVars
    /\ UNCHANGED notWk

\* gui.py:741-749: the slot of request_input
request_worker_input ==
    /\ close_pc = "open"
    /\ gui_events # << >>
    /\ Head(gui_events).signal = "request_input"
    /\ gui_events' = Tail(gui_events)
    /\ input_frame' = TRUE
    /\ view_btn' = FALSE
    /\ start_btn' = FALSE
    /\ UNCHANGED <<workers, close_pc, close_idx>>
    /\ UNCHANGED guiVars
    /\ UNCHANGED notWk

\* gui.py:751-766: a click on yes or no: the first worker that is running
\* gets the response and its event is set, the prompt is hidden and View
\* is enabled
send_input(response) ==
    /\ close_pc = "open"
    /\ input_frame
    /\ LET running == { i \in 1..Len(workers) : isRunning(workers[i]) }
       IN IF running = {}
          THEN workers' = workers
          ELSE LET first == CHOOSE i \in running : \A j \in running : i <= j
               IN workers' = [workers EXCEPT ![first].response = response,
                                             ![first].event = TRUE]
    /\ input_frame' = FALSE
    /\ view_btn' = TRUE
    /\ UNCHANGED <<start_btn, gui_events, close_pc, close_idx>>
    /\ UNCHANGED guiVars
    /\ UNCHANGED notWk

\* gui.py:853-877 (handle_view_result) and 879-894 (handle_unlock_result),
\* the slots of finished: View is enabled, the prompt hidden, and Start
\* Unlock enabled after a view that succeeded
handle_result ==
    /\ close_pc = "open"
    /\ gui_events # << >>
    /\ Head(gui_events).signal = "finished"
    /\ LET i == Head(gui_events).worker
       IN /\ workers' = [workers EXCEPT ![i].handled = TRUE]
          /\ start_btn' = (workers[i].stage = "view" /\ workers[i].outcome = "True")
    /\ gui_events' = Tail(gui_events)
    /\ view_btn' = TRUE
    /\ input_frame' = FALSE
    /\ UNCHANGED <<close_pc, close_idx>>
    /\ UNCHANGED guiVars
    /\ UNCHANGED notWk

\* gui.py:768-777: the window is closed; the workers are stopped one after
\* the other
closeEvent ==
    /\ close_pc = "open"
    /\ IF workers = << >>
       THEN close_pc' = "closed" /\ close_idx' = 0
       ELSE close_pc' = "stop" /\ close_idx' = 1
    /\ UNCHANGED <<view_btn, start_btn, input_frame, workers, gui_events>>
    /\ UNCHANGED guiVars
    /\ UNCHANGED notWk

\* gui.py:313-315: stop clears is_running and sets the event
AsyncWorker_stop ==
    /\ close_pc = "stop"
    /\ workers' = [workers EXCEPT ![close_idx].is_running = FALSE,
                                  ![close_idx].event = TRUE]
    /\ close_pc' = "wait"
    /\ UNCHANGED <<view_btn, start_btn, input_frame, gui_events, close_idx>>
    /\ UNCHANGED guiVars
    /\ UNCHANGED notWk

\* gui.py:316, 775-777: wait returns when the thread has ended; the next
\* worker, or the end of closeEvent
AsyncWorker_wait_returns ==
    /\ close_pc = "wait"
    /\ ~ isRunning(workers[close_idx])
    /\ IF close_idx < Len(workers)
       THEN close_pc' = "stop" /\ close_idx' = close_idx + 1
       ELSE close_pc' = "closed" /\ close_idx' = close_idx
    /\ UNCHANGED <<view_btn, start_btn, input_frame, workers, gui_events>>
    /\ UNCHANGED guiVars
    /\ UNCHANGED notWk

\* the steps of the worker threads
AsyncWorker_run ==
    \E i \in 1..Len(workers) :
       \/ AsyncWorker_blocking_input(i)
       \/ AsyncWorker_input_returns(i)
       \/ \E outcome \in {"True", "False", "raised"} : AsyncWorker_callback_ends(i, outcome)
       \/ AsyncWorker_checks_is_running(i)
       \/ AsyncWorker_emits_finished(i)

\* the slots the GUI thread runs for the queued signals
gui_slots == request_worker_input \/ handle_result

\* what the user does
user_clicks ==
    \/ on_click_no_appid
    \/ on_view
    \/ on_start_unlock
    \/ \E response \in {"y", "n"} : send_input(response)
    \/ closeEvent

worker_Next ==
    \/ user_clicks
    \/ gui_slots
    \/ AsyncWorker_run
    \/ AsyncWorker_stop
    \/ AsyncWorker_wait_returns

----------------------------------------------------------------------------
(* Specifications *)

\* one call of main_gui up to its call of handle_depot_files
SpecMainGuiInit == FetchIdle /\ SelIdle /\ KeyIdle /\ RunIdle /\ CfgIdle /\ GuiInit
    /\ WkIdle /\ IS_CN_assigned \in BOOLEAN
SpecMainGui == SpecMainGuiInit /\ [][main_gui_Next]_vars

\* calls of main_gui one after the other in one process, with the
\* fetch_files calls of the unlock runs
SpecRegionInit == RegionInit /\ SelIdle /\ KeyIdle /\ RunIdle /\ CfgIdle /\ WkIdle
SpecRegion == SpecRegionInit /\ [][region_Next]_vars

\* one session of the window: clicks, workers, prompts, until it is closed
SpecWorkerInit ==
    FetchIdle /\ SelIdle /\ KeyIdle /\ RunIdle /\ CfgIdle /\ GuiIdle /\ WkInit
    /\ IS_CN_assigned = FALSE
SpecWorker == SpecWorkerInit /\ [][worker_Next]_vars

\* the same session when every thread keeps running: a worker thread that
\* can take a step takes one, and so does the GUI thread's event loop for
\* the queued signals and inside closeEvent; the user owes no click
SpecWorkerFair ==
    /\ SpecWorker
    /\ WF_vars(AsyncWorker_run)
    /\ WF_vars(gui_slots)
    /\ WF_vars(AsyncWorker_stop)
    /\ WF_vars(AsyncWorker_wait_returns)

\* one call of setup_greenluma
SpecGreenlumaInit ==
    FetchIdle /\ SelIdle /\ KeyIdle /\ RunIdle /\ GreenlumaInit /\ GuiIdle
    /\ WkIdle /\ IS_CN_assigned = TRUE
SpecGreenluma == SpecGreenlumaInit /\ [][setup_greenluma_call]_vars

\* one call of setup_steamtools
SpecSteamtoolsInit ==
    FetchIdle /\ SelIdle /\ KeyIdle /\ RunIdle /\ SteamtoolsInit /\ GuiIdle
    /\ WkIdle /\ IS_CN_assigned = TRUE
SpecSteamtools == SpecSteamtoolsInit /\ [][setup_steamtools_call]_vars

\* one call of fetch_files
SpecFetchInit == FetchInit /\ SelIdle /\ KeyIdle /\ RunIdle /\ CfgIdle /\ GuiIdle
    /\ WkIdle /\ IS_CN_assigned = TRUE
SpecFetch == SpecFetchInit /\ [][fetch_files_Next]_vars

\* one call of get_latest_repo_info on REPO_LIST
SpecSelectInit == FetchIdle /\ SelInit /\ KeyIdle /\ RunIdle /\ CfgIdle /\ GuiIdle
    /\ WkIdle /\ IS_CN_assigned = TRUE
SpecSelect == SpecSelectInit /\ [][get_latest_repo_info_Next]_vars

\* one call of parse_key
SpecParseInit == FetchIdle /\ SelIdle /\ KeyInit /\ RunIdle /\ CfgIdle /\ GuiIdle
    /\ WkIdle /\ IS_CN_assigned = TRUE
SpecParse == SpecParseInit /\ [][parse_key_call]_vars

\* the index of one tree listing
SpecIndexInit == FetchIdle /\ SelIdle /\ KeyIdle /\ IndexInit /\ CfgIdle /\ GuiIdle
    /\ WkIdle /\ IS_CN_assigned = TRUE
SpecIndex == SpecIndexInit /\ [][hdf_build_index]_vars

\* unlock runs of main_gui, one after the other, on one Steam directory
Init == FetchIdle /\ SelIdle /\ KeyIdle /\ RunInit /\ CfgIdle /\ GuiIdle
    /\ WkIdle /\ IS_CN_assigned = TRUE
Spec == Init /\ [][Next]_vars

----------------------------------------------------------------------------
(* Claims *)

\* C1: in fetch_files a request that gets a 2xx response is the last request
\* of the call (no later mirror of the round and no later round is tried),
\* and the call has returned the body of that response.
C1_ReturnsOnFirstSuccess ==
    /\ \A i \in 1..Len(fetch_log) :
         fetch_log[i].ok =>
           /\ i = Len(fetch_log)
           /\ fetch_pc = "returned"
           /\ fetch_content = fetch_log[i].body
    /\ fetch_pc = "returned" =>
         /\ fetch_log # << >>
         /\ fetch_log[Len(fetch_log)].ok

\* C1 witness: the second of four mirrors answered 2xx in the second round
C1_Witness ==
    /\ fetch_pc = "returned"
    /\ IS_CN
    /\ Len(fetch_log) = Len(url_list) + 2
    /\ fetch_log[Len(fetch_log)].ok
    /\ CONFIG_retry_count >= 3

\* C2: when every request fails, fetch_files with retry count R >= 1 and N
\* URLs raises its error after exactly R x N requests, round after round
\* over the N URLs in list order, and never issues more than R x N requests.
C2_ExhaustsAllRounds ==
    LET R == CONFIG_retry_count
        N == Len(url_list)
    IN (R >= 1 /\ fetch_pc # "idle") =>
         /\ Len(fetch_log) <= R * N
         /\ \A i \in 1..Len(fetch_log) : fetch_log[i].url = url_list[((i - 1) % N) + 1]
         /\ fetch_pc = "raised" =>
              /\ Len(fetch_log) = R * N
              /\ \A i \in 1..Len(fetch_log) : ~ fetch_log[i].ok

\* C2 witness: all rounds over the four mirrors failed
C2_Witness ==
    /\ fetch_pc = "raised"
    /\ IS_CN
    /\ CONFIG_retry_count = MaxRetry
    /\ Len(fetch_log) = MaxRetry * 4

\* a is before b in the lexicographic order of the code points
LexLess(a, b) ==
    \E k \in 1..(Len(b)) :
      /\ \A i \in 1..(k - 1) : i <= Len(a) /\ a[i] = b[i]
      /\ \/ k = Len(a) + 1
         \/ k <= Len(a) /\ Ord(a[k]) < Ord(b[k])

\* the candidates whose branch response carried commit data
WithBranch == { i \in 1..Len(sel_responses) : sel_responses[i].kind = "commit" }

\* C3: when at least one candidate has the branch, get_latest_repo_info
\* returns the candidate whose timestamp is lexicographically greatest among
\* those that have it, with that timestamp, and of several with the greatest
\* timestamp the earliest in the list.
C3_SelectsLexMaxFirstSeen ==
    (sel_pc \in {"returned", "not_found"} /\ WithBranch # {}) =>
      /\ sel_pc = "returned"
      /\ \E i \in WithBranch :
           /\ selected_repo = REPO_LIST[i]
           /\ latest_date = sel_responses[i].date
           /\ \A j \in WithBranch :
                /\ ~ LexLess(sel_responses[i].date, sel_responses[j].date)
                /\ sel_responses[j].date = sel_responses[i].date => i <= j

\* C3 witness: two candidates share the greatest timestamp "9", a third has
\* "19" (numerically greater, lexicographically smaller); the first is chosen
C3_Witness ==
    /\ sel_pc = "returned"
    /\ Len(sel_responses) = 4
    /\ sel_responses[1] = [kind |-> "commit", date |-> <<"1", "9">>]
    /\ sel_responses[2] = [kind |-> "commit", date |-> <<"9">>]
    /\ sel_responses[3] = [kind |-> "no_commit"]
    /\ sel_responses[4] = [kind |-> "commit", date |-> <<"9">>]
    /\ selected_repo = REPO_LIST[2]

\* C4: a candidate whose branch response has no commit data is skipped
\* without raising and never selected; when every request was answered, the
\* selector raises not-found if and only if no candidate has the branch, and
\* it decides only after all candidates were queried.
C4_SkipsAndQueriesAll ==
    /\ sel_pc \in {"returned", "not_found"} =>
         /\ Len(sel_responses) = Len(REPO_LIST)
         /\ sel_pc = "not_found" <=> WithBranch = {}
    /\ sel_pc = "returned" =>
         \E i \in WithBranch : selected_repo = REPO_LIST[i]
    /\ (sel_pc = "query" /\ sel_responses # << >>) =>
         sel_idx = Len(sel_responses) + 1

\* C4 witness: candidates without commit data before and after the chosen one
C4_Witness ==
    /\ sel_pc = "returned"
    /\ sel_responses[1].kind = "no_commit"
    /\ sel_responses[2].kind = "empty"
    /\ sel_responses[3].kind = "commit"
    /\ sel_responses[4].kind = "no_commit"
    /\ selected_repo = REPO_LIST[3]

\* C9: for a well-formed key container parse_key returns exactly one pair
\* for each depot that has a DecryptionKey field and none for the depots
\* lacking it; a subsection without the field takes no other pair away.
C9_OnePairPerKeyedSubsection ==
    (key_pc = "done" /\ key_content.kind = "vdf") =>
      LET d == key_content.depots
          keyed == { d[i].id : i \in { j \in 1..Len(d) : d[j].key # None } }
      IN /\ { key_result[i][1] : i \in 1..Len(key_result) } = keyed
         /\ Len(key_result) = Cardinality(keyed)

\* the positions of the events of this run of one kind
EventsOf(op) == { i \in 1..Len(events) : events[i].op = op }

\* C5: a manifest that exists at its path when the walk reaches its tree
\* entry is neither fetched nor written in that step, and no step of a run
\* removes or changes a file that is on disk: its content stays what it was.
C5_ExistingManifestUntouched ==
    [][ /\ (pc = "walk" /\ IsManifest(repo_tree[idx]) /\ repo_tree[idx] \in DOMAIN disk) =>
             (disk' = disk /\ events' = events)
        /\ \A path \in DOMAIN disk : path \in DOMAIN disk' /\ disk'[path] = disk[path]
      ]_vars

\* C5 witness: a run that wrote one manifest passed over another that was
\* on disk, which still has its old content
C5_Witness ==
    /\ pc = "done"
    /\ \E i \in 1..Len(repo_tree) :
         /\ IsManifest(repo_tree[i])
         /\ repo_tree[i] \in DOMAIN disk
         /\ disk[repo_tree[i]] = OldBody
         /\ \A k \in 1..Len(events) : events[k].path # repo_tree[i]
    /\ \E k \in EventsOf("write") : events[k].ok

\* C6: in a run that follows a run of handle_depot_files that ended without
\* an exception, on the same directory and the same tree, fetch_files is
\* called for no manifest entry.
C6_SecondRunFetchesNoManifest ==
    prev_ok => \A k \in EventsOf("fetch") : ~ IsManifest(events[k].path)

\* C6 witness: the second run is over; it fetched a key file, and the tree
\* has a manifest that the first run downloaded
C6_Witness ==
    /\ prev_ok
    /\ pc = "done"
    /\ EventsOf("fetch") # {}
    /\ \E i \in 1..Len(repo_tree) :
         /\ IsManifest(repo_tree[i])
         /\ repo_tree[i] \in DOMAIN disk
         /\ disk[repo_tree[i]] # OldBody

\* C7: a fetch_files call that raises is the last fetch, write, parse or
\* setup_unlock call of its run: handle_depot_files has ended in an except
\* clause, setup_unlock is not called and the run returns failure.
C7_FetchFailureAbortsRun ==
    \A k \in EventsOf("fetch") :
      ~ events[k].ok =>
        /\ k = Len(events)
        /\ pc \in {"handled", "done"}
        /\ hdf_error # None
        /\ pc = "done" => run_result = "failure"

\* C7 witness: a key file gave keys, then the fetch of a manifest raised,
\* and the run is over
C7_Witness ==
    /\ pc = "done"
    /\ collected # << >>
    /\ events # << >>
    /\ events[Len(events)].op = "fetch"
    /\ ~ events[Len(events)].ok
    /\ IsManifest(events[Len(events)].path)
    /\ run_result = "failure"

\* C8: in the key list handle_depot_files returns every depotId appears at
\* most once.
C8_DepotIdsUnique ==
    pc \in {"handled", "done"} =>
      \A i, j \in 1..Len(collected) :
        collected[i][1] = collected[j][1] => i = j

\* C10: a key file that parse_key cannot parse adds no pair and does not
\* abort: the walk goes on with the next entry or, after the last one,
\* builds the index and returns; handle_depot_files ends in an except
\* clause only on a failed request, fetch or write, never on a parse.
C10_ParseFailureGoesOn ==
    [][ /\ (Len(events') > Len(events) /\ events'[Len(events')].op = "parse") =>
             /\ hdf_error' = None
             /\ \/ pc' = "walk" /\ idx' = idx + 1
                \/ pc' = "handled" /\ idx = Len(repo_tree)
                     /\ depot_map' = BuildIndex(repo_tree)
             /\ ~ events'[Len(events')].ok => collected' = collected
        /\ (hdf_error' # None /\ events' # << >>) =>
             /\ events'[Len(events')].op \in {"fetch", "write"}
             /\ ~ events'[Len(events')].ok
      ]_vars

\* C10 witness: the first key file did not parse, the second one gave the
\* keys; the index is built and handle_depot_files returned both
C10_Witness ==
    /\ pc = "handled"
    /\ hdf_error = None
    /\ Len(repo_tree) = 3
    /\ \E k \in EventsOf("parse") : ~ events[k].ok /\ \E m \in EventsOf("parse") : m > k /\ events[m].ok
    /\ collected # << >>
    /\ depot_map # EmptyMap

\* the (depotId, manifestId) pairs the index lists
Listed ==
    UNION { { <<d, depot_map[d][k]>> : k \in 1..Len(depot_map[d]) } : d \in DOMAIN depot_map }

\* the halves of the filename stem of a path around its first underscore
StemTokens(path) == SplitFirst(PathStem(path), "_")

\* C11: after a successful handle_depot_files manifestId m is listed under
\* depotId d if and only if the tree has a manifest entry whose filename
\* stem, split at its first underscore, gives (d, m), both made of digits
\* only; a stem without underscore or with a non-digit token adds nothing.
C11_IndexedIffTwoDigitTokens ==
    (pc = "handled" /\ hdf_error = None) =>
      Listed = { StemTokens(repo_tree[i]) :
                   i \in { j \in 1..Len(repo_tree) :
                             /\ IsManifest(repo_tree[j])
                             /\ Contains(PathStem(repo_tree[j]), <<"_">>)
                             /\ IsDigit(StemTokens(repo_tree[j])[1])
                             /\ IsDigit(StemTokens(repo_tree[j])[2]) } }

\* C12: in the index a successful handle_depot_files returns, every list is
\* strictly descending: each manifestId is numerically greater than the next.
C12_StrictlyDescending ==
    (pc \in {"handled", "done"} /\ hdf_error = None) =>
      \A d \in DOMAIN depot_map :
        \A k \in 1..(Len(depot_map[d]) - 1) :
          IntOf(depot_map[d][k]) > IntOf(depot_map[d][k + 1])

\* C19: in an unlock run whose acquisition returned no key setup_unlock is
\* not called and the run reports failure; setup_unlock is called only
\* when the acquisition returned at least one key.
C19_NoKeysNoSetup ==
    /\ (pc = "done" /\ collected = << >>) =>
         (EventsOf("setup") = {} /\ run_result = "failure")
    /\ EventsOf("setup") # {} => collected # << >>

\* C19 witness: handle_depot_files ended without an exception and with an
\* index, but no key file gave a key; the run is over
C19_Witness ==
    /\ pc = "done"
    /\ hdf_error = None
    /\ collected = << >>
    /\ depot_map # EmptyMap
    /\ EventsOf("parse") # {}
    /\ run_result = "failure"

\* C20: when get_latest_repo_info raises, handle_depot_files returns an
\* empty key list and an empty index, has called neither fetch_files nor
\* open, and no directory or file is made or changed: depotcache is there
\* after the call only if it was before.
C20_SelectorFailureLeavesNoTrace ==
    [][ (pc = "select" /\ pc' = "handled") =>
          /\ hdf_error' # None
          /\ collected' = << >>
          /\ depot_map' = EmptyMap
          /\ events' = << >>
          /\ depot_cache_exists' = depot_cache_exists
          /\ dirs' = dirs
          /\ disk' = disk
      ]_vars

\* C20 witness: a first run ended in the except clause before any request
\* of handle_depot_files itself, on a Steam directory without depotcache
C20_Witness ==
    /\ pc = "done"
    /\ hdf_error # None
    /\ ~ prev_ok
    /\ events = << >>
    /\ collected = << >>
    /\ depot_map = EmptyMap
    /\ ~ depot_cache_exists
    /\ run_result = "failure"
    /\ repo_tree # << >>

\* C13: with version lock not requested, the script setup_steamtools writes
\* for n depot keys is one grant line for the title followed by n depot
\* grant lines, one per depot key in input order, and no pin line.
C13_OneGrantPerKey ==
    (setup_pc = "returned" /\ setup_result = "True" /\ choice = "n") =>
      /\ lua_file.exists
      /\ Len(lua_file.lines) = Len(depot_data) + 1
      /\ lua_file.lines[1] = [fn |-> "addappid", id |-> st_app_id, arg |-> "None"]
      /\ \A i \in 1..Len(depot_data) :
           lua_file.lines[i + 1] =
             [fn |-> "addappid", id |-> depot_data[i][1], arg |-> depot_data[i][2]]

\* C13 witness: a script for two keys of two depots that both have
\* manifests in the index took the place of an older script
C13_Witness ==
    /\ setup_pc = "returned"
    /\ setup_result = "True"
    /\ choice = "n"
    /\ Len(depot_data) = MaxPairs
    /\ depot_data[1][1] # depot_data[2][1]
    /\ DOMAIN st_depot_map = DepotIds
    /\ Len(lua_file.lines) = MaxPairs + 1

\* the manifestIds the index has for a depot
PinsOf(d) == IF d \in DOMAIN st_depot_map THEN st_depot_map[d] ELSE << >>

RECURSIVE LockedScript(_)
\* for each depot key one grant line and then one pin line per manifestId
LockedScript(data) ==
    IF data = << >> THEN << >>
    ELSE LET d == data[Len(data)][1]
         IN LockedScript(SubSeq(data, 1, Len(data) - 1))
              \o << [fn |-> "addappid", id |-> d, arg |-> data[Len(data)][2]] >>
              \o [k \in 1..Len(PinsOf(d)) |->
                    [fn |-> "setManifestid", id |-> d, arg |-> PinsOf(d)[k]]]

\* C14: with version lock requested, the script block written for each
\* depot key is one grant line followed by one pin line per manifestId of
\* that depot in the index, in index order.
C14_LockedBlocksPinAll ==
    (setup_pc = "returned" /\ setup_result = "True" /\ choice = "y") =>
      SubSeq(lua_file.lines, 2, Len(lua_file.lines)) = LockedScript(depot_data)

\* C15: if the config.vdf that is there fails to parse, setup_greenluma
\* returns false and config.vdf holds after the call what it held before.
C15_UnparsableConfigUntouched ==
    (setup_pc = "returned" /\ config_vdf_old.kind = "unparsable") =>
      (setup_result = "False" /\ config_vdf = config_vdf_old)

\* C15 witness: the list files were rewritten, then config.vdf did not parse
C15_Witness ==
    /\ setup_pc = "returned"
    /\ config_vdf_old.kind = "unparsable"
    /\ setup_result = "False"
    /\ IdxName(1) \in DOMAIN applist
    /\ applist[IdxName(1)] # OldText

\* C16: after a successful setup_greenluma the store written to config.vdf
\* is a deep update of the one read: depots[d].DecryptionKey = k for every
\* pair (d, k) of depot_data, and nothing else differs: the other top-level
\* sections, the depots entries of other depotIds, and the other fields of
\* a depots[d] that was there.
C16_DeepUpdate ==
    (setup_pc = "returned" /\ setup_result = "True") =>
      LET old == config_vdf_old.store
          new == config_vdf.store
          ids == { depot_data[i][1] : i \in 1..Len(depot_data) }
      IN /\ \A i \in 1..Len(depot_data) :
              /\ depot_data[i][1] \in DOMAIN new.depots
              /\ "DecryptionKey" \in DOMAIN new.depots[depot_data[i][1]]
              /\ new.depots[depot_data[i][1]]["DecryptionKey"] = depot_data[i][2]
         /\ new.others = old.others
         /\ DOMAIN new.depots = DOMAIN old.depots \cup ids
         /\ \A d \in DOMAIN old.depots \ ids : new.depots[d] = old.depots[d]
         /\ \A d \in DOMAIN old.depots \cap ids :
              \A f \in DOMAIN old.depots[d] \ {"DecryptionKey"} :
                f \in DOMAIN new.depots[d] /\ new.depots[d][f] = old.depots[d][f]

\* C17: after a successful setup_greenluma with n pairs the .txt files of
\* AppList are exactly 1.txt .. n.txt, file i holding the depotId of the
\* i-th pair; no .txt file from before the call is left under another name.
C17_ExactlyIndexFiles ==
    (setup_pc = "returned" /\ setup_result = "True") =>
      /\ { name \in DOMAIN applist : IsTxt(name) } =
           { IdxName(i) : i \in 1..Len(depot_data) }
      /\ \A i \in 1..Len(depot_data) : applist[IdxName(i)] = depot_data[i][1]

\* C17 witness: AppList held 1.txt and 7.txt and another file; after the
\* call for one pair it holds the new 1.txt and the other file
C17_Witness ==
    /\ setup_pc = "returned"
    /\ setup_result = "True"
    /\ Len(depot_data) = 1
    /\ DOMAIN applist_old = AppListNames
    /\ DOMAIN applist = AppListNames \ { <<"7">> \o DotTxt }
    /\ applist[IdxName(1)] = depot_data[1][1]

\* the positions of the hyphen-separated tokens of the input that are made
\* of digits only
DigitTokens ==
    { i \in 1..Len(SplitAll(app_id_input, "-")) : IsDigit(SplitAll(app_id_input, "-")[i]) }

\* C18: main_gui takes as identifier the first hyphen-separated token of
\* its input that is made of digits only, and every request for a title is
\* for that identifier; when the input has no such token the call returns
\* failure with the status "Error: Invalid AppID", has sent no request,
\* and handle_depot_files, which makes depotcache and its files, is not
\* called.
C18_FirstDigitTokenOrFailure ==
    (gui_pc \notin {"idle", "start"}) =>
      IF DigitTokens = {}
      THEN /\ gui_pc = "returned"
           /\ gui_result = "False"
           /\ gui_status = "Error: Invalid AppID"
           /\ gui_requests = << >>
           /\ pc = "idle"
           /\ ~ depot_cache_exists /\ dirs = {} /\ disk = << >>
      ELSE /\ app_id = SplitAll(app_id_input, "-")
                         [CHOOSE i \in DigitTokens : \A j \in DigitTokens : i <= j]
           /\ gui_status # "Error: Invalid AppID"
           /\ \A k \in 1..Len(gui_requests) :
                gui_requests[k].id \in {<< >>, app_id}

\* C18 witness: an unlock call with the input "1a-a", which has a digit
\* and a hyphen but no token of digits, has returned
C18_Witness ==
    /\ stage = "unlock"
    /\ app_id_input = <<"1", "a", "-", "a">>
    /\ gui_pc = "returned"
    /\ gui_result = "False"


\* C21: when the branch request or the tree request answers with a non-2xx
\* status, handle_depot_files returns an empty key list and an empty
\* index, has fetched no file, and leaves the destination as it was:
\* depotcache is not made, and the manifests of earlier runs stay.
C21_StatusErrorLeavesDestination ==
    [][ (pc \in {"branch", "tree"} /\ hdf_error' = "HTTPStatusError") =>
          /\ pc' = "handled"
          /\ collected' = << >>
          /\ depot_map' = EmptyMap
          /\ EventsOf("fetch")' = {}
          /\ EventsOf("write")' = {}
          /\ depot_cache_exists' = depot_cache_exists
          /\ dirs' = dirs
          /\ disk' = disk
      ]_vars

\* C21 witness: a run after a complete one met a non-2xx answer, and the
\* manifests of the earlier run are still in depotcache
C21_Witness ==
    /\ pc = "handled"
    /\ hdf_error = "HTTPStatusError"
    /\ prev_ok
    /\ DOMAIN disk # {}
    /\ events = << >>
    /\ collected = << >>
    /\ depot_map = EmptyMap


\* C22: for each manifest entry that is not in depotcache and whose fetch
\* succeeds, a file is at depotcache/relativePath afterwards, also when
\* relativePath names directories that are not there yet.
C22_FetchedManifestIsWritten ==
    \A i \in EventsOf("fetch") :
        (events[i].ok /\ IsManifest(events[i].path)) => Exists(events[i].path)


\* C24: in fetch_files the retry delay is awaited once after each round in
\* which every URL failed and after which a round remains, and never after
\* the final round: a call with retry count R >= 1 whose requests all fail
\* waits exactly R - 1 times before it raises.
C24_DelayBetweenRoundsOnly ==
    LET R == CONFIG_retry_count
        N == Len(url_list)
        requests == Len(fetch_log)
    IN /\ fetch_pc = "request" => fetch_sleeps = requests \div N
       /\ fetch_pc \in {"returned", "interrupted"} => fetch_sleeps = (requests - 1) \div N
       /\ (fetch_pc = "raised" /\ R >= 1) => fetch_sleeps = R - 1
       /\ (fetch_pc = "raised" /\ R = 0) => fetch_sleeps = 0

\* C24 witness: every request of three rounds failed and the call raised
\* after two delays
C24_Witness ==
    /\ fetch_pc = "raised"
    /\ CONFIG_retry_count = 3
    /\ fetch_sleeps = 2
    /\ Len(fetch_log) = 3 * Len(url_list)
    /\ \A i \in 1..Len(fetch_log) : ~ fetch_log[i].ok


\* C25: setup_greenluma reports every I/O or parse failure of any of its
\* steps (making AppList, clearing and writing the list files, opening,
\* parsing and rewriting config.vdf) by returning false: no exception
\* leaves the function.
C25_EveryFailureReturnsFalse ==
    (setup_pc \in {"returned", "raised"} /\ failed_at # None) =>
      (setup_pc = "returned" /\ setup_result = "False")

\* the .txt files of AppList
TxtFiles(files) == [name \in { n \in DOMAIN files : IsTxt(n) } |-> files[name]]

\* C26 as stated: whenever setup_greenluma returns false, the .txt files
\* of AppList and config.vdf are as they were before the call.
C26_AllOrNothing ==
    (setup_pc = "returned" /\ setup_result = "False") =>
      /\ TxtFiles(applist) = TxtFiles(applist_old)
      /\ config_vdf = config_vdf_old

\* C26 amended: whenever setup_greenluma returns false, config.vdf holds
\* what it held before the call, unless the rewrite of config.vdf itself
\* failed and left it written in part; the list files are not restored.
C26_ConfigKeptUnlessRewriteFailed ==
    (setup_pc = "returned" /\ setup_result = "False") =>
      \/ config_vdf = config_vdf_old
      \/ failed_at = "write" /\ config_vdf.kind = "unparsable"

\* C26 witness: writing a list file failed after the old ones were
\* removed; config.vdf, a readable store, is as before
C26_Witness ==
    /\ setup_pc = "returned"
    /\ setup_result = "False"
    /\ failed_at = "write_text"
    /\ TxtFiles(applist_old) # << >>
    /\ TxtFiles(applist) = << >>
    /\ config_vdf.kind = "vdf"
    /\ config_vdf = config_vdf_old

\* C27: after a successful setup_greenluma the bytes of config.vdf are
\* exactly the serialization of the merged store: nothing of the previous
\* text is left after the new one.
C27_NoStaleBytes ==
    (setup_pc = "returned" /\ setup_result = "True") =>
      config_vdf = [kind |-> "vdf",
                    store |-> Merged(config_vdf_old.store, depot_data),
                    pretty |-> FALSE,
                    tail |-> 0]


C28_NoEmitAfterStop ==
    [][ \A i \in 1..Len(workers) :
          ~ workers[i].is_running => workers'[i].emitted = workers[i].emitted
      ]_vars


\* a worker whose callback has ended and whose finished signal the GUI
\* thread has not handled yet
Outstanding(w) ==
    \/ w.pc \in {"returned", "raised", "emit"}
    \/ w.emitted = 1 /\ ~ w.handled

\* C29: every AsyncWorker that is started and not stopped emits finished
\* exactly once when its callback returns or raises, on success and on
\* every failure, so that the View button is enabled again: no worker
\* emits twice, a worker that ended unstopped has emitted, the slot of
\* finished enables View, and while the window is open the signal of every
\* ended callback gets handled.
C29_FinishedOnceThenViewEnabled ==
    /\ [](\A i \in 1..Len(workers) :
            /\ workers[i].emitted <= 1
            /\ (workers[i].pc = "finished" /\ workers[i].is_running) =>
                  workers[i].emitted = 1
            /\ workers[i].handled => workers[i].emitted = 1)
    /\ [][ \A i \in 1..Len(workers) :
             (~ workers[i].handled /\ workers'[i].handled) => view_btn' ]_vars
    /\ []<>(\/ close_pc # "open"
            \/ \A i \in 1..Len(workers) : ~ Outstanding(workers[i]))

\* C29 witness: an unlock whose callback raised has emitted finished once,
\* the signal is handled and View is enabled, in the open window
C29_Witness ==
    /\ close_pc = "open"
    /\ view_btn
    /\ \E i \in 1..Len(workers) :
         /\ workers[i].stage = "unlock"
         /\ workers[i].outcome = "raised"
         /\ workers[i].emitted = 1
         /\ workers[i].handled
         /\ workers[i].is_running


\* C30: in every unlock run variable.IS_CN is assigned by check_location,
\* on each of its paths (domestic after a timeout or an error), before the
\* first fetch_files call reads it, and it does not change from the first
\* fetch_files call of the run to the last.
C30_RegionFixedBeforeFetch ==
    /\ []((fetch_pc # "idle" \/ FetchCalls # {}) =>
            /\ IS_CN_assigned
            /\ stage = "unlock"
            /\ \E j \in 1..Len(gui_requests) :
                 /\ gui_requests[j].what = "rate_limit"
                 /\ \A k \in FetchCalls : j < k)
    /\ [][ (gui_pc = "location" /\ gui_pc' # "location") =>
             /\ IS_CN_assigned'
             /\ FetchCalls = {} ]_vars
    /\ [][ (FetchCalls # {} /\ gui_requests' # << >>) => IS_CN' = IS_CN ]_vars

\* C30 witness: the second fetch_files call of an unlock run is trying the
\* second mirror of the domestic region, which check_location chose in
\* this run
C30_Witness ==
    /\ stage = "unlock"
    /\ gui_pc = "handle"
    /\ Cardinality(FetchCalls) = 2
    /\ fetch_pc = "request"
    /\ IS_CN_assigned
    /\ IS_CN = TRUE
    /\ url_idx = 2

====
